---- MODULE Spec2Model ----
(***************************************************************************)
(* RenChess: the spaced-repetition record store (user.py), the puzzle      *)
(* verification loop (chessPuzzle.py, chessGame.py), and the game against  *)
(* the engine with its clocks (RenChess.py).                               *)
(*                                                                         *)
(* Spec        the record store under add_activity calls and passing days  *)
(* SpecReview  get_review_items applied to a record set                    *)
(* SpecPuzzle  Puzzle.run replaying a scripted solution                    *)
(* SpecTimer   Timer.update_base on timers of every time control           *)
(* SpecGame    play_game: the half-move loop, the clocks, the search       *)
(* SpecEntry   the move entry of either loop: a game or a puzzle           *)
(* SpecControl play_game under every button event of its wait loops        *)
(* SpecSave    the batch loops of play_puzzle, review_puzzles; save_files  *)
(* SpecCoord   the conversions between squares, buttons and move text      *)
(* SpecPlay    play_puzzle with every Puzzle.run played click by click     *)
(***************************************************************************)
EXTENDS Integers, Sequences, FiniteSets, TLC

(* ---- bounds of the model ---- *)
NPuzzles == 2
MaxDay == 1
MaxK == 2
MaxWrong == 4
MaxUpdates == 2
MaxTicks == 2
MaxSearches == 1
MaxQueue == 1

VARIABLES
    record,     \* User.record: section -> (item key -> "days stage" string)
    today,      \* int((time.time() - 1609488000) / 86400), read at each call
    streak,     \* history: consecutive S calls since the record was at stage 0
    max_item,   \* config["User"]["max_review_items"]
    review,     \* get_review_items: its position and what it returned
    game,       \* Puzzle.game: the parsed PGN (start position, mainline)
    board,      \* Puzzle.board: the rules engine's board
    run,        \* Puzzle: its fields and the position of run()
    input,      \* get_user_input: move_state, move_from, moved_piece
    hl,         \* the board buttons shown in the move colour
    psg_board,  \* RenChessApp.psg_board: button (row, col) -> piece code
    pg,         \* play_game: its locals and the position of its loops
    human_timer,    \* play_game: the human's Timer
    engine_timer,   \* play_game: the engine's Timer
    search,     \* the RunEngine thread of play_game, and how many were started
    queue,      \* RenChessApp.queue: the messages of the search thread
    timer,      \* a Timer on its own
    updates,    \* history: the update_base calls made on `timer`
    disk,       \* data\record.txt: the record set as a reader of the file gets it
    batch,      \* play_puzzle / review_puzzles: its position and its puzzle id
    coord       \* a square, a button and a move text, and their conversions

recordVars == <<record, today, streak>>
reviewVars == <<max_item, review>>
puzzleVars == <<game, board, run, input>>
playVars == <<psg_board, pg, human_timer, engine_timer, search, queue>>
timerVars == <<timer, updates>>
saveVars == <<disk, batch>>
vars == <<record, today, streak, max_item, review, game, board, run, input,
          hl, psg_board, pg, human_timer, engine_timer, search, queue,
          timer, updates, disk, batch, coord>>

(***************************************************************************)
(* Strings.  A Python str is modelled as the sequence of its characters,   *)
(* so that str(), split(" ") and int() are computed, not assumed.          *)
(***************************************************************************)
DigitChars == <<"0", "1", "2", "3", "4", "5", "6", "7", "8", "9">>

DigitVal(c) == (CHOOSE i \in 1..10 : DigitChars[i] = c) - 1

\* chess.FILE_NAMES, chess.RANK_NAMES
FILE_NAMES == <<"a", "b", "c", "d", "e", "f", "g", "h">>
RANK_NAMES == <<"1", "2", "3", "4", "5", "6", "7", "8">>

\* ord(c) for the characters that occur: ' ' < '-' < '0' < ... < '9' < 'a'
\* < ... < 'h'
Ord(c) ==
    IF c = " " THEN 32 ELSE IF c = "-" THEN 45
    ELSE IF \E i \in 1..8 : FILE_NAMES[i] = c
    THEN 96 + (CHOOSE i \in 1..8 : FILE_NAMES[i] = c)
    ELSE 48 + DigitVal(c)

RECURSIVE StrNat(_)
StrNat(n) ==
    IF n < 10 THEN <<DigitChars[n + 1]>>
    ELSE StrNat(n \div 10) \o <<DigitChars[(n % 10) + 1]>>

\* str(n) for an int n
Str(n) == IF n < 0 THEN <<"-">> \o StrNat(0 - n) ELSE StrNat(n)

RECURSIVE IntNat(_)
IntNat(s) ==
    IF s = <<>> THEN 0
    ELSE IntNat(SubSeq(s, 1, Len(s) - 1)) * 10 + DigitVal(s[Len(s)])

\* int(s) for a decimal string s
ParseInt(s) == IF s[1] = "-" THEN 0 - IntNat(Tail(s)) ELSE IntNat(s)

RECURSIVE Split(_)
\* s.split(" "): the fields of s between single spaces
Split(s) ==
    IF \A i \in 1..Len(s) : s[i] # " " THEN <<s>>
    ELSE LET k == CHOOSE i \in 1..Len(s) :
                      s[i] = " " /\ \A j \in 1..(i - 1) : s[j] # " "
         IN  <<SubSeq(s, 1, k - 1)>> \o Split(SubSeq(s, k + 1, Len(s)))

RECURSIVE StrLt(_, _)
\* a < b on Python strings (lexicographic by character code)
StrLt(a, b) ==
    IF b = <<>> THEN FALSE
    ELSE IF a = <<>> THEN TRUE
    ELSE IF a[1] # b[1] THEN Ord(a[1]) < Ord(b[1])
    ELSE StrLt(Tail(a), Tail(b))

(***************************************************************************)
(* The record store                                                        *)
(***************************************************************************)
\* the section name every caller passes to add_activity
Sections == {"Polgar5334"}

\* puzzle ids: indexes into PuzzleManager.puzzles; 9, 10, ... so that the
\* order of the keys as strings ("10" < "9") differs from the order as ints
PuzzleIds == 9..(8 + NPuzzles)

Ranks == {"S", "A", "B", "C"}

\* str(days) + " " + str(stage)
RecordValue(days, stage) == Str(days) \o <<" ">> \o Str(stage)

\* int(value.split(" ")[0]), int(value.split(" ")[1])
RecordDays(value) == ParseInt(Split(value)[1])
RecordStage(value) == ParseInt(Split(value)[2])

\* dict assignment d[k] = v: update in place or insert
DictSet(d, k, v) == [x \in (DOMAIN d) \cup {k} |-> IF x = k THEN v ELSE d[x]]

\* d.pop(k)
DictPop(d, k) == [x \in (DOMAIN d) \ {k} |-> d[x]]

EmptyDict == [x \in {} |-> <<>>]

\* mutant: the floor max(.., 0) forgotten
NewStage_NoFloor(old_stage, result) ==
    IF result = "S" THEN old_stage + 1 ELSE old_stage - 1

\* new_stage = old_stage + 1 if result == "S" else max(old_stage - 1, 0)
NewStage(old_stage, result) ==
    IF result = "S" THEN old_stage + 1
    ELSE IF old_stage - 1 > 0 THEN old_stage - 1 ELSE 0

\* mutant: the retirement test off by one upwards (new_stage <= 7)
IsKept_Late(new_stage) == new_stage < 8

\* mutant: the retirement test off by one downwards (new_stage < 6)
IsKept_Early(new_stage) == new_stage < 6

\* if new_stage < 7: the record is kept; else it is popped
IsKept(new_stage) == new_stage < 7

\* mutant: a first attempt with rank S starts the record at stage 1
add_activity_RankedStart(rec, days, puzzle_set, puzzle_id, result) ==
    LET id_str == Str(puzzle_id)
        first == IF result = "S" THEN 1 ELSE 0
    IN
    IF puzzle_set \notin DOMAIN rec
    THEN DictSet(rec, puzzle_set, DictSet(EmptyDict, id_str, RecordValue(days, first)))
    ELSE IF id_str \notin DOMAIN rec[puzzle_set]
    THEN DictSet(rec, puzzle_set,
                 DictSet(rec[puzzle_set], id_str, RecordValue(days, first)))
    ELSE LET old_stage == RecordStage(rec[puzzle_set][id_str])
             new_stage == NewStage(old_stage, result)
         IN  IF IsKept(new_stage)
             THEN DictSet(rec, puzzle_set,
                          DictSet(rec[puzzle_set], id_str,
                                  RecordValue(days, new_stage)))
             ELSE DictSet(rec, puzzle_set, DictPop(rec[puzzle_set], id_str))

\* the value of self.record after add_activity(puzzle_set, puzzle_id, result)
add_activity(rec, days, puzzle_set, puzzle_id, result) ==
    LET id_str == Str(puzzle_id) IN
    IF puzzle_set \notin DOMAIN rec
    THEN DictSet(rec, puzzle_set, DictSet(EmptyDict, id_str, RecordValue(days, 0)))
    ELSE IF id_str \notin DOMAIN rec[puzzle_set]
    THEN DictSet(rec, puzzle_set,
                 DictSet(rec[puzzle_set], id_str, RecordValue(days, 0)))
    ELSE LET old_stage == RecordStage(rec[puzzle_set][id_str])
             new_stage == NewStage(old_stage, result)
         IN  IF IsKept(new_stage)
             THEN DictSet(rec, puzzle_set,
                          DictSet(rec[puzzle_set], id_str,
                                  RecordValue(days, new_stage)))
             ELSE DictSet(rec, puzzle_set, DictPop(rec[puzzle_set], id_str))

\* the (section, item) pairs that have a record
Keys(rec) == {k \in (DOMAIN rec) \X {Str(i) : i \in PuzzleIds} :
                  k[2] \in DOMAIN rec[k[1]]}

HasRecord(rec, puzzle_set, puzzle_id) == <<puzzle_set, Str(puzzle_id)>> \in Keys(rec)

StageOf(rec, k) == RecordStage(rec[k[1]][k[2]])
DaysOf(rec, k) == RecordDays(rec[k[1]][k[2]])

\* history of one call, kept for the claims about sequences of calls
StreakAfter(rec2, old, puzzle_set, puzzle_id, result) ==
    IF HasRecord(rec2, puzzle_set, puzzle_id)
       /\ StageOf(rec2, <<puzzle_set, Str(puzzle_id)>>) = 0
    THEN 0
    ELSE IF result = "S" /\ old >= 0 THEN old + 1 ELSE -1

AddActivity(puzzle_set, puzzle_id, result) ==
    LET rec2 == add_activity(record, today, puzzle_set, puzzle_id, result)
    IN  /\ record' = rec2
        /\ streak' = [streak EXCEPT ![puzzle_id] =
                          StreakAfter(rec2, @, puzzle_set, puzzle_id, result)]
        /\ UNCHANGED <<today, max_item, review, puzzleVars, hl, playVars, timerVars, saveVars, coord>>

\* a day passes between two calls
Tick ==
    /\ today < MaxDay
    /\ today' = today + 1
    /\ UNCHANGED <<record, streak, max_item, review, puzzleVars, hl, playVars, timerVars, saveVars, coord>>

(***************************************************************************)
(* get_review_items                                                        *)
(***************************************************************************)
\* memory_curve = {0: 1, 1: 2, 2: 3, 3: 5, 4: 8, 5: 13, 6: 21}
memory_curve == <<1, 2, 3, 5, 8, 13, 21>>

\* mutant: the sign of the stage weight lost
Priority_Positive(stage, now, days) == 1000 * memory_curve[stage + 1] + (now - days)

\* idx = -1000 * memory_curve[stage] + (today - days)
Priority(stage, now, days) == (0 - 1000) * memory_curve[stage + 1] + (now - days)

\* the order of section names as Python strings
SectionsSorted == <<"Polgar5334">>
SectionLt(a, b) ==
    \E i, j \in 1..Len(SectionsSorted) :
        SectionsSorted[i] = a /\ SectionsSorted[j] = b /\ i < j

\* (idx, section, item) < (idx, section, item) on Python tuples
TupleLt(a, b) ==
    \/ a[1] < b[1]
    \/ a[1] = b[1] /\ SectionLt(a[2], b[2])
    \/ a[1] = b[1] /\ a[2] = b[2] /\ StrLt(a[3], b[3])

\* review_items is a heapq heap: a collection whose element 0 is its least
\* element; it is kept as the set of its (distinct) tuples
HeapMin(heap) == CHOOSE t \in heap : \A u \in heap : u = t \/ TupleLt(t, u)

\* elif idx > review_items[0][0]
Replaces(idx, heap) == idx > HeapMin(heap)[1]

\* the body of the loop for one record, on the scan state st
ScanRecord(st, rec, now, max, k) ==
    LET records == Split(rec[k[1]][k[2]])
        days == ParseInt(records[1])
        stage == ParseInt(records[2])
        idx == Priority(stage, now, days)
        t == <<idx, k[1], k[2]>>
        seen == [st EXCEPT !.visited = Append(@, k)]
    IN  IF Cardinality(st.heap) < max
        THEN [seen EXCEPT !.heap = @ \cup {t},
                          !.held = IF Cardinality(st.heap) + 1 > @
                                   THEN Cardinality(st.heap) + 1 ELSE @]
        ELSE IF st.heap = {}
        THEN [seen EXCEPT !.pc = "IndexError"]   \* review_items[0] of []
        ELSE IF Replaces(idx, st.heap)
        THEN [seen EXCEPT !.heap = (@ \ {HeapMin(st.heap)}) \cup {t}]
        ELSE seen

RECURSIVE Scan(_, _, _, _, _, _)
\* for section in self.record: for item in self.record[section]: ...
Scan(st, rec, now, max, order, i) ==
    IF i > Len(order) \/ st.pc = "IndexError" THEN st
    ELSE Scan(ScanRecord(st, rec, now, max, order[i]), rec, now, max, order, i + 1)

RECURSIVE PopAll(_)
\* [heapq.heappop(review_items)[1:] for _ in range(len(review_items))]
PopAll(heap) ==
    IF heap = {} THEN <<>>
    ELSE LET t == HeapMin(heap) IN <<<<t[2], t[3]>>>> \o PopAll(heap \ {t})

\* results[::-1]
Reversed(s) == [i \in 1..Len(s) |-> s[Len(s) + 1 - i]]

\* the orders in which a dict with these keys can be iterated (its insertion
\* order, which depends on the calls that built it)
Orders(keys) ==
    {o \in [1..Cardinality(keys) -> keys] :
        \A i, j \in 1..Cardinality(keys) : o[i] = o[j] => i = j}

ReviewIdle == [pc |-> "idle", results |-> <<>>, held |-> 0, visited |-> <<>>]

get_review_items(rec, now, max, order) ==
    LET st0 == [pc |-> "scan", heap |-> {}, held |-> 0, visited |-> <<>>]
        st == Scan(st0, rec, now, max, order, 1)
    IN  IF st.pc = "IndexError"
        THEN [pc |-> "IndexError", results |-> <<>>, held |-> st.held,
              visited |-> st.visited]
        ELSE [pc |-> "returned", results |-> Reversed(PopAll(st.heap)),
              held |-> st.held, visited |-> st.visited]

GetReviewItems ==
    /\ review.pc = "idle"
    /\ \E order \in Orders(Keys(record)) :
           review' = get_review_items(record, today, max_item, order)
    /\ UNCHANGED <<record, today, streak, max_item, puzzleVars, hl, playVars, timerVars, saveVars, coord>>

(***************************************************************************)
(* The rules engine (python-chess), as far as Puzzle and Game call it.     *)
(* Squares are its integers 0..63, piece types its names.                  *)
(***************************************************************************)
\* chess.square(file, rank), chess.square_file(s), chess.square_rank(s)
Sq(file, rank) == file + 8 * rank
square_file(s) == s % 8
square_rank(s) == s \div 8

A1 == Sq(0, 0)
E1 == Sq(4, 0)
F1 == Sq(5, 0)
G1 == Sq(6, 0)
H1 == Sq(7, 0)
E2 == Sq(4, 1)
E5 == Sq(4, 4)
D5 == Sq(3, 4)
A6 == Sq(0, 5)
D6 == Sq(3, 5)
E6 == Sq(4, 5)
F6 == Sq(5, 5)
G6 == Sq(6, 5)
A7 == Sq(0, 6)
D7 == Sq(3, 6)
F7 == Sq(5, 6)
H7 == Sq(7, 6)
A8 == Sq(0, 7)
B8 == Sq(1, 7)
E8 == Sq(4, 7)
F8 == Sq(5, 7)
G8 == Sq(6, 7)
H8 == Sq(7, 7)

\* chess.Move(from_square, to_square, promotion=None)
Mv(f, t) == [from_square |-> f, to_square |-> t, promotion |-> "None"]
MvP(f, t, p) == [from_square |-> f, to_square |-> t, promotion |-> p]

Pc(type, white) == [type |-> type, color |-> white]
NoSquare == 0 - 1

\* board.piece_type_at(square)
piece_type_at(b, sq) ==
    IF sq \in DOMAIN b.pieces THEN b.pieces[sq].type ELSE "None"

Abs(n) == IF n < 0 THEN 0 - n ELSE n

\* board.is_castling(move): a king moving two files, or onto its own rook
is_castling(b, m) ==
    /\ piece_type_at(b, m.from_square) = "K"
    /\ \/ Abs(square_file(m.from_square) - square_file(m.to_square)) > 1
       \/ /\ piece_type_at(b, m.to_square) = "R"
          /\ b.pieces[m.to_square].color = b.turn

\* board.is_en_passant(move)
is_en_passant(b, m) ==
    /\ b.ep_square = m.to_square
    /\ piece_type_at(b, m.from_square) = "P"
    /\ Abs(m.to_square - m.from_square) \in {7, 9}
    /\ m.to_square \notin DOMAIN b.pieces

\* the rook's squares in a castling move of the king to square t
CastleRookFrom(t) == IF square_file(t) > 4 THEN Sq(7, square_rank(t)) ELSE Sq(0, square_rank(t))
CastleRookTo(t) == IF square_file(t) > 4 THEN Sq(5, square_rank(t)) ELSE Sq(3, square_rank(t))

\* board.push(move)
push(b, m) ==
    LET f == m.from_square
        t == m.to_square
        mover == b.pieces[f]
        placed == IF m.promotion # "None" THEN Pc(m.promotion, mover.color) ELSE mover
        gone == {f}
                \cup (IF is_en_passant(b, m)
                      THEN {IF b.turn THEN t - 8 ELSE t + 8} ELSE {})
                \cup (IF is_castling(b, m) THEN {CastleRookFrom(t)} ELSE {})
        put == [x \in {t} \cup (IF is_castling(b, m) THEN {CastleRookTo(t)} ELSE {})
                   |-> IF x = t THEN placed ELSE Pc("R", mover.color)]
    IN  [pieces |-> [x \in ((DOMAIN b.pieces) \ gone) \cup DOMAIN put |->
                         IF x \in DOMAIN put THEN put[x] ELSE b.pieces[x]],
         turn |-> ~b.turn,
         ep_square |-> IF mover.type = "P" /\ Abs(t - f) = 16
                       THEN (f + t) \div 2 ELSE NoSquare,
         move_stack |-> Append(b.move_stack, m)]

\* board.san(move), for a move of the legal moves `legal` of b: the piece,
\* the origin square where the notation needs it (a rival piece of the same
\* type reaching the same square, or a pawn capture), the capture mark, the
\* destination and the promotion piece; castling is written O-O or O-O-O.
san(b, legal, m) ==
    LET pt == piece_type_at(b, m.from_square)
        capture == m.to_square \in DOMAIN b.pieces \/ is_en_passant(b, m)
        rivals == {o \in legal : /\ o.to_square = m.to_square
                                 /\ o.from_square # m.from_square
                                 /\ piece_type_at(b, o.from_square) = pt}
    IN  IF is_castling(b, m)
        THEN <<IF square_file(m.to_square) > square_file(m.from_square)
               THEN "O-O" ELSE "O-O-O", NoSquare, FALSE, NoSquare, "None">>
        ELSE <<pt,
               IF rivals # {} \/ (pt = "P" /\ capture) THEN m.from_square ELSE NoSquare,
               capture, m.to_square, m.promotion>>

\* board.san(move) fails on a move whose origin square is empty
san_raises(b, m) == m.from_square \notin DOMAIN b.pieces

(***************************************************************************)
(* The puzzles: for each, the position of its FEN, its mainline and, for   *)
(* the position before each ply, the rules engine's legal moves among the  *)
(* squares the model clicks.                                               *)
(***************************************************************************)
\* K+R v K: 1. Kf7 Kh7 2. Rh1#
PuzzlePlain ==
    [pieces |-> (F6 :> Pc("K", TRUE)) @@ (A1 :> Pc("R", TRUE)) @@ (H8 :> Pc("K", FALSE)),
     script |-> <<Mv(F6, F7), Mv(H8, H7), Mv(A1, H1)>>,
     legal |-> <<{Mv(F6, F7), Mv(F6, G6), Mv(A1, H1), Mv(A1, A8)},
                 {Mv(H8, H7)},
                 {Mv(A1, H1), Mv(A1, A8), Mv(F7, F6), Mv(F7, F8)}>>]

\* K+P v K: 1. a7 Kg8 2. a8=Q#
PuzzlePromotion ==
    [pieces |-> (G6 :> Pc("K", TRUE)) @@ (A6 :> Pc("P", TRUE)) @@ (H8 :> Pc("K", FALSE)),
     script |-> <<Mv(A6, A7), Mv(H8, G8), MvP(A7, A8, "Q")>>,
     legal |-> <<{Mv(A6, A7), Mv(G6, F6), Mv(G6, F7)},
                 {Mv(H8, G8)},
                 {MvP(A7, A8, "Q"), MvP(A7, A8, "R"), MvP(A7, A8, "B"),
                  MvP(A7, A8, "N"), Mv(G6, F6)}>>]

\* the human castles: 1. O-O Kb8 2. Rf8+
PuzzleCastle ==
    [pieces |-> (E1 :> Pc("K", TRUE)) @@ (H1 :> Pc("R", TRUE)) @@ (A8 :> Pc("K", FALSE)),
     script |-> <<Mv(E1, G1), Mv(A8, B8), Mv(F1, F8)>>,
     legal |-> <<{Mv(E1, G1), Mv(E1, E2), Mv(E1, F1), Mv(H1, H8)},
                 {Mv(A8, B8)},
                 {Mv(F1, F8), Mv(F1, F7), Mv(G1, H1)}>>]

\* the scripted side castles: 1. Ra7 O-O 2. Re7
PuzzleReplyCastles ==
    [pieces |-> (E2 :> Pc("K", TRUE)) @@ (A1 :> Pc("R", TRUE))
                @@ (E8 :> Pc("K", FALSE)) @@ (H8 :> Pc("R", FALSE)),
     script |-> <<Mv(A1, A7), Mv(E8, G8), Mv(A7, E6)>>,
     legal |-> <<{Mv(A1, A7), Mv(A1, A8), Mv(E2, E1)},
                 {Mv(E8, G8), Mv(E8, F8)},
                 {Mv(A7, E6), Mv(A7, A8)}>>]

\* en passant: 1. Ke2 d5 2. exd6
PuzzleEnPassant ==
    [pieces |-> (E1 :> Pc("K", TRUE)) @@ (E5 :> Pc("P", TRUE))
                @@ (E8 :> Pc("K", FALSE)) @@ (D7 :> Pc("P", FALSE)),
     script |-> <<Mv(E1, E2), Mv(D7, D5), Mv(E5, D6)>>,
     legal |-> <<{Mv(E1, E2), Mv(E5, E6), Mv(E1, F1)},
                 {Mv(D7, D5), Mv(D7, D6)},
                 {Mv(E5, D6), Mv(E5, E6), Mv(E2, E1)}>>]

PuzzleBook == {PuzzlePlain, PuzzlePromotion, PuzzleCastle, PuzzleReplyCastles,
               PuzzleEnPassant}

\* self.game.board(): the FEN's position, the puzzle's player to move
GameBoard(g) ==
    [pieces |-> g.pieces, turn |-> TRUE, ep_square |-> NoSquare, move_stack |-> <<>>]

\* board.legal_moves, for the positions along the mainline
legal_moves(g, b) == g.legal[Len(b.move_stack) + 1]

(***************************************************************************)
(* Game: coordinates (chessGame.py)                                        *)
(***************************************************************************)
RANK_8 == 7

get_row_Unflipped(s) == square_rank(s)

\* Game.get_row (chessGame.py 43-54): row 0 is the top of the board
get_row(s) == 7 - square_rank(s)
get_col(s) == square_file(s)
relative_row(s, stm) == IF stm THEN 7 - get_row(s) ELSE get_row(s)

\* the board buttons the model clicks: those of the squares the puzzle's
\* moves use; a button's key is (row, col)
ButtonOf(s) == <<get_row(s), get_col(s)>>
Buttons(g) ==
    {ButtonOf(m.from_square) : m \in UNION {g.legal[i] : i \in 1..Len(g.legal)}}
    \cup {ButtonOf(m.to_square) : m \in UNION {g.legal[i] : i \in 1..Len(g.legal)}}

\* chess.square(col, 7 - row)
SquareOfButton(button) == Sq(button[2], 7 - button[1])

\* str(move): the names of the two squares and the promotion letter
square_name(s) == <<FILE_NAMES[square_file(s) + 1], RANK_NAMES[square_rank(s) + 1]>>
str_move(m) ==
    square_name(m.from_square) \o square_name(m.to_square)
        \o (CASE m.promotion = "Q" -> <<"q">> [] m.promotion = "R" -> <<"r">>
               [] m.promotion = "B" -> <<"b">> [] m.promotion = "N" -> <<"n">>
               [] OTHER -> <<>>)

TextButton_RankAsRow(move_str, i) ==
    <<DigitVal(move_str[i + 1]) - 1, Ord(move_str[i]) - Ord("a")>>

\* the button of the square written at move_str[i], move_str[i + 1]:
\* col = ord(letter) - ord('a'), row = 8 - int(digit) (RenChess.py 1757-1761)
TextButton(move_str, i) ==
    <<8 - DigitVal(move_str[i + 1]), Ord(move_str[i]) - Ord("a")>>

\* change_square_color(row, col): the button takes the move colour of its
\* shade (dark when row + col is odd)
change_square_color(coloured, button) == coloured \cup {button}

\* mutant: the button keeps the move colour
RestoreColor_Keeps(coloured, button) == coloured

\* button_square.Update(button_color=('white', color)) with the board colour
\* of the button's shade
RestoreColor(coloured, button) == coloured \ {button}

\* redraw_board gives every button its board colour; the move's two squares
\* then take the move colour
MoveColoured(m) ==
    change_square_color(change_square_color({}, ButtonOf(m.from_square)),
                        ButtonOf(m.to_square))

(***************************************************************************)
(* Puzzle (chessPuzzle.py)                                                 *)
(***************************************************************************)
Flip(side) == IF side = "Black" THEN "White" ELSE "Black"

InputStart == [move_state |-> 0, move_from |-> <<>>, moved_piece |-> "None"]

\* Game.__init__ and Puzzle.__init__; san_at is history: the ply whose
\* notation line 104 asked for last, and the number of moves then on the board
PuzzleStart ==
    [pc |-> "start", ply |-> 1, play_side |-> "White", player |-> "White",
     performance |-> <<0, 0>>, rank |-> "", moves |-> <<>>, move_id |-> 0 - 1,
     is_exit_app |-> FALSE, ret |-> "None", san_at |-> <<>>]

\* mutant: the clamp one bucket early
RankOf_ClampB(wrong) == <<"S", "A", "B", "C">>[(IF wrong > 2 THEN 2 ELSE wrong) + 1]

\* ranks[3 if self.performance[1] > 3 else self.performance[1]]
RankOf(wrong) == <<"S", "A", "B", "C">>[(IF wrong > 3 THEN 3 ELSE wrong) + 1]

\* after the for loop: the rank, or the return when the user has exited
AfterLoop(r) ==
    IF ~r.is_exit_app
    THEN [r EXCEPT !.rank = RankOf(r.performance[2]), !.pc = "cleared"]
    ELSE [r EXCEPT !.pc = "done", !.ret = "False"]

\* mutant: the test of the side to move dropped, the human plays every ply
ForLoop_AllHuman(r, g, b) ==
    IF r.ply > Len(g.script) THEN AfterLoop(r)
    ELSE LET asked == [r EXCEPT !.san_at = <<r.ply, Len(b.move_stack)>>]
         IN  IF san_raises(b, g.script[r.ply]) THEN [asked EXCEPT !.pc = "raised"]
             ELSE IF r.is_exit_app THEN AfterLoop(asked)
             ELSE [asked EXCEPT !.pc = "input"]

\* the top of `for pgn_move in self.game.mainline_moves()` with the move
\* number r.ply next, up to the next blocking read: the notation of the
\* move is asked for (line 104) before is_exit_app is tested (line 105)
ForLoop(r, g, b) ==
    IF r.ply > Len(g.script) THEN AfterLoop(r)
    ELSE LET asked == [r EXCEPT !.san_at = <<r.ply, Len(b.move_stack)>>]
         IN  IF san_raises(b, g.script[r.ply]) THEN [asked EXCEPT !.pc = "raised"]
             ELSE IF r.is_exit_app THEN AfterLoop(asked)
             ELSE IF r.play_side # r.player THEN [asked EXCEPT !.pc = "wait"]
             ELSE [asked EXCEPT !.pc = "input"]

\* mutant: the side to play is not flipped at the end of a ply
EndOfPly_KeepsSide(r, g, b) ==
    ForLoop([r EXCEPT !.ply = @ + 1], g, b)

\* self.play_side = 'White' if self.play_side == 'Black' else 'Black', and on
\* to the next move of the mainline
EndOfPly(r, g, b) ==
    ForLoop([r EXCEPT !.play_side = Flip(@), !.ply = @ + 1], g, b)

\* update_board(move) raises on a castling move: update_rook(self, move) is
\* called with two arguments
update_board_raises(b, m) == is_castling(b, m)

\* mutant: the wrong move is also appended to the displayed move list
OnWrongMove_Listed(r, g, b) ==
    [r EXCEPT !.performance = <<@[1], @[2] + 1>>,
              !.move_id = @ + 1,
              !.moves = Append(@, <<Str(r.move_id + 2), <<>>, <<>>>>)]

\* mutant: a wrong move also ends the ply (a break after the wrong branch)
OnWrongMove_Skips(r, g, b) ==
    EndOfPly([r EXCEPT !.performance = <<@[1], @[2] + 1>>], g, b)

\* the branch san != pgn_move_san
OnWrongMove(r, g, b) == [r EXCEPT !.performance = <<@[1], @[2] + 1>>]

\* the branch san == pgn_move_san, up to update_board
GoodMove(r, move_san) ==
    [r EXCEPT !.performance = <<@[1] + 1, @[2]>>,
              !.move_id = @ + 1,
              !.moves = Append(@, <<Str(r.move_id + 2), move_san, <<>>>>)]

\* Puzzle.run is called
StartRun ==
    /\ run.pc = "start"
    /\ run' = ForLoop(run, game, board)
    /\ input' = InputStart
    /\ UNCHANGED <<game, board, hl, recordVars, reviewVars, playVars, timerVars, saveVars, coord>>

\* the scripted side's ply, after its wait(1): the move is shown and played
ScriptedPly ==
    /\ run.pc = "wait"
    /\ LET pgn_move == game.script[run.ply]
           pgn_move_san == san(board, legal_moves(game, board), pgn_move)
           shown == [run EXCEPT !.moves[run.move_id + 1][3] = pgn_move_san]
       IN  IF update_board_raises(board, pgn_move)
           THEN /\ run' = [shown EXCEPT !.pc = "raised"]
                /\ UNCHANGED <<board, hl>>
           ELSE /\ board' = push(board, pgn_move)
                /\ run' = EndOfPly(shown, game, board')
                /\ hl' = MoveColoured(pgn_move)
    /\ input' = InputStart
    /\ UNCHANGED <<game, recordVars, reviewVars, playVars, timerVars, saveVars, coord>>

\* the move the second click asks for
UserMove(button) ==
    Mv(SquareOfButton(input.move_from), SquareOfButton(button))

\* the second click is on a promotion square with a pawn selected
IsPromote(button) ==
    /\ relative_row(SquareOfButton(button), board.turn) = RANK_8
    /\ input.moved_piece = "P"

\* get_user_input reads a click on a board square; when the click completes
\* a legal move, run compares it with the script's move
ClickSquare(button) ==
    /\ run.pc = "input"
    /\ IF input.move_state = 0
       THEN /\ input' = [move_state |-> 1, move_from |-> button,
                         moved_piece |-> piece_type_at(board, SquareOfButton(button))]
            /\ hl' = change_square_color(hl, button)
            /\ UNCHANGED <<run, board>>
       ELSE IF button = input.move_from
       THEN /\ input' = [input EXCEPT !.move_state = 0]
            /\ hl' = RestoreColor(hl, button)
            /\ UNCHANGED <<run, board>>
       ELSE IF IsPromote(button)
       THEN \* pyc_promo, psg_promo = self.get_promo_piece(...), which returns
            \* one value: TypeError
            /\ run' = [run EXCEPT !.pc = "raised"]
            /\ UNCHANGED <<input, board, hl>>
       ELSE IF UserMove(button) \notin legal_moves(game, board)
       THEN /\ input' = [input EXCEPT !.move_state = 0]
            /\ hl' = RestoreColor(hl, input.move_from)
            /\ UNCHANGED <<run, board>>
       ELSE LET move == UserMove(button)
                pgn_move_san == san(board, legal_moves(game, board), game.script[run.ply])
                move_san == san(board, legal_moves(game, board), move)
            IN  IF move_san # pgn_move_san
                THEN /\ run.performance[2] < MaxWrong
                     /\ run' = OnWrongMove(run, game, board)
                     /\ input' = InputStart
                     /\ hl' = RestoreColor(hl, ButtonOf(move.from_square))
                     /\ UNCHANGED board
                ELSE IF update_board_raises(board, move)
                THEN /\ run' = [GoodMove(run, move_san) EXCEPT !.pc = "raised"]
                     /\ UNCHANGED <<input, board, hl>>
                ELSE /\ board' = push(board, move)
                     /\ run' = EndOfPly(GoodMove(run, move_san), game, board')
                     /\ input' = InputStart
                     /\ hl' = MoveColoured(move)
    /\ UNCHANGED <<game, recordVars, reviewVars, playVars, timerVars, saveVars, coord>>

\* get_user_input reads the window's close: it returns without a move, and
\* run leaves both loops
CloseWindow ==
    /\ run.pc = "input"
    /\ run' = EndOfPly([run EXCEPT !.is_exit_app = TRUE], game, board)
    /\ input' = InputStart
    /\ UNCHANGED <<game, board, hl, recordVars, reviewVars, playVars, timerVars, saveVars, coord>>

\* the loop after "Rank Cleared" reads a button
ClearedEvent(button) ==
    /\ run.pc = "cleared"
    /\ run' = IF button = "None"
              THEN [run EXCEPT !.is_exit_app = TRUE, !.pc = "done", !.ret = "False"]
              ELSE [run EXCEPT !.pc = "done", !.ret = "True"]
    /\ UNCHANGED <<input, game, board, hl, recordVars, reviewVars, playVars, timerVars, saveVars, coord>>

(***************************************************************************)
(* play_game (RenChess.py): the UI board and the positions played          *)
(***************************************************************************)
\* globals.py: the piece codes of psg_board
BLANK == 0
PAWNB == 1
KNIGHTB == 2
BISHOPB == 3
ROOKB == 4
KINGB == 5
QUEENB == 6
PAWNW == 7
KNIGHTW == 8
BISHOPW == 9
ROOKW == 10
KINGW == 11
QUEENW == 12

AllButtons == (0..7) \X (0..7)

\* the psg code of a rules-engine piece (the chain of tests of
\* fen_to_psg_board)
PsgCode(pc) ==
    IF pc.color
    THEN CASE pc.type = "P" -> PAWNW [] pc.type = "N" -> KNIGHTW
           [] pc.type = "B" -> BISHOPW [] pc.type = "R" -> ROOKW
           [] pc.type = "Q" -> QUEENW [] pc.type = "K" -> KINGW
    ELSE CASE pc.type = "P" -> PAWNB [] pc.type = "N" -> KNIGHTB
           [] pc.type = "B" -> BISHOPB [] pc.type = "R" -> ROOKB
           [] pc.type = "Q" -> QUEENB [] pc.type = "K" -> KINGB

\* fen_to_psg_board: psg_board[row][col] for the pieces of a position
fen_to_psg_board(pieces) ==
    [bt \in AllButtons |->
        IF SquareOfButton(bt) \in DOMAIN pieces
        THEN PsgCode(pieces[SquareOfButton(bt)]) ELSE BLANK]

\* the back rank of the starting position, files a..h
BackRank == <<"R", "N", "B", "Q", "K", "B", "N", "R">>

\* chess.Board(): the pieces of the starting position
StartPieces ==
    [sq \in {Sq(f, r) : f \in 0..7, r \in {0, 1, 6, 7}} |->
        IF square_rank(sq) = 0 THEN Pc(BackRank[square_file(sq) + 1], TRUE)
        ELSE IF square_rank(sq) = 1 THEN Pc("P", TRUE)
        ELSE IF square_rank(sq) = 6 THEN Pc("P", FALSE)
        ELSE Pc(BackRank[square_file(sq) + 1], FALSE)]

\* globals.initial_board
initial_board == fen_to_psg_board(StartPieces)

SQ_C1 == Sq(2, 0)
SQ_D1 == Sq(3, 0)
A2 == Sq(0, 1)
G2 == Sq(6, 1)
D3 == Sq(3, 2)
E3 == Sq(4, 2)
F3 == Sq(5, 2)
D4 == Sq(3, 3)
E4 == Sq(4, 3)
E7 == Sq(4, 6)
SQ_C8 == Sq(2, 7)
SQ_D8 == Sq(3, 7)

(***************************************************************************)
(* The positions play_game is run on: the starting position and positions  *)
(* pasted as a FEN.  For each, `tree` gives for a move stack the rules      *)
(* engine's legal moves among the squares `squares` the model clicks        *)
(* (promotions: those the engine side may answer with), and `over` the      *)
(* move stacks after which the game is over.  Play is followed as far as    *)
(* `tree` goes.                                                             *)
(***************************************************************************)
\* the starting position: 1. e4 or 1. Nf3, and 1... e5
PosStart ==
    [pieces |-> StartPieces, turn |-> TRUE,
     squares |-> {E2, E4, G1, F3, E7, E5},
     tree |-> (<<>> :> {Mv(E2, E4), Mv(G1, F3)})
              @@ (<<Mv(E2, E4)>> :> {Mv(E7, E5)})
              @@ (<<Mv(G1, F3)>> :> {Mv(E7, E5)}),
     over |-> {}]

\* r3k2r/8/8/8/8/8/8/R3K2R w KQkq - : both sides may castle.  After O-O the
\* rook on f1 covers f8, after O-O-O the rook on d1 covers d8, after Rg1
\* the rook covers g8.  The rules engine also accepts the king's move onto
\* its own rook (e1h1, e8a8) as castling.
PosCastle ==
    [pieces |-> (E1 :> Pc("K", TRUE)) @@ (A1 :> Pc("R", TRUE)) @@ (H1 :> Pc("R", TRUE))
                @@ (E8 :> Pc("K", FALSE)) @@ (A8 :> Pc("R", FALSE)) @@ (H8 :> Pc("R", FALSE)),
     turn |-> TRUE,
     squares |-> {E1, G1, SQ_C1, H1, E8, G8, SQ_C8, A8},
     tree |-> (<<>> :> {Mv(E1, G1), Mv(E1, SQ_C1), Mv(E1, H1), Mv(H1, G1)})
              @@ (<<Mv(E1, G1)>> :> {Mv(E8, SQ_C8), Mv(E8, A8), Mv(A8, SQ_C8)})
              @@ (<<Mv(E1, SQ_C1)>> :> {Mv(E8, G8), Mv(A8, SQ_C8)})
              @@ (<<Mv(H1, G1)>> :> {Mv(E8, SQ_C8), Mv(E8, A8), Mv(A8, SQ_C8)}),
     over |-> {}]

\* 4k3/8/8/8/3p4/8/4P3/4K3 w - - : after 1. e4 the pawn on d4 may capture en
\* passant on e3; after 1. e3 it may capture the pawn on e3
PosEnPassant ==
    [pieces |-> (E1 :> Pc("K", TRUE)) @@ (E2 :> Pc("P", TRUE))
                @@ (E8 :> Pc("K", FALSE)) @@ (D4 :> Pc("P", FALSE)),
     turn |-> TRUE,
     squares |-> {E2, E3, E4, D4, D3},
     tree |-> (<<>> :> {Mv(E2, E4), Mv(E2, E3)})
              @@ (<<Mv(E2, E4)>> :> {Mv(D4, E3), Mv(D4, D3)})
              @@ (<<Mv(E2, E3)>> :> {Mv(D4, E3), Mv(D4, D3)}),
     over |-> {}]

\* 7k/P7/8/8/8/8/p7/7K w - - : both sides are about to promote; a8=Q is
\* check, which the engine side answers with Kh7 (no move among the squares
\* clicked answers it)
PosPromotion ==
    [pieces |-> (H1 :> Pc("K", TRUE)) @@ (A7 :> Pc("P", TRUE))
                @@ (H8 :> Pc("K", FALSE)) @@ (A2 :> Pc("P", FALSE)),
     turn |-> TRUE,
     squares |-> {A7, A8, B8, H1, G2, A2, A1},
     tree |-> (<<>> :> {MvP(A7, A8, "Q"), MvP(A7, A8, "N"), Mv(H1, G2)})
              @@ (<<MvP(A7, A8, "Q")>> :> {Mv(H8, H7)})
              @@ (<<MvP(A7, A8, "N")>> :> {MvP(A2, A1, "Q"), MvP(A2, A1, "N")})
              @@ (<<Mv(H1, G2)>> :> {MvP(A2, A1, "Q"), MvP(A2, A1, "N")}),
     over |-> {}]

\* 7k/5K2/8/8/8/8/8/R7 w - - : 1. Rh1 is mate
PosMate ==
    [pieces |-> (F7 :> Pc("K", TRUE)) @@ (A1 :> Pc("R", TRUE)) @@ (H8 :> Pc("K", FALSE)),
     turn |-> TRUE,
     squares |-> {A1, H1, A8},
     tree |-> (<<>> :> {Mv(A1, H1), Mv(A1, A8)}),
     over |-> {<<Mv(A1, H1)>>}]

\* what the clipboard may hold when Paste is chosen
Clipboard == {PosCastle, PosEnPassant, PosPromotion, PosMate}

\* chess.Board(fen)
PosBoard(g) ==
    [pieces |-> g.pieces, turn |-> g.turn, ep_square |-> NoSquare, move_stack |-> <<>>]

\* board.is_game_over(claim_draw=True)
is_game_over(g, b) == b.move_stack \in g.over

\* play is followed from this position
Followed(g, b) == b.move_stack \in DOMAIN g.tree

\* `move in board.legal_moves`
is_legal(g, b, m) == Followed(g, b) /\ m \in g.tree[b.move_stack]

\* the buttons of the squares clicked
PosButtons(g) == {ButtonOf(sq) : sq \in g.squares}

\* the moves an engine or a book answers with: UCI writes castling as the
\* king's move of two files
EngineMoves(g, b) ==
    IF Followed(g, b) /\ ~is_game_over(g, b)
    THEN {m \in g.tree[b.move_stack] :
             ~(piece_type_at(b, m.from_square) = "K"
               /\ piece_type_at(b, m.to_square) = "R")}
    ELSE {}

(***************************************************************************)
(* Timer (RenChess.py)                                                     *)
(***************************************************************************)
\* Timer.__init__
Timer(tc_type, base, inc, period_moves) ==
    [tc_type |-> tc_type, base |-> base, inc |-> inc,
     period_moves |-> period_moves, elapse |-> 0, init_base_time |-> base]

Min(a, b) == IF a < b THEN a ELSE b
Max(a, b) == IF a > b THEN a ELSE b

\* mutant: the clamp at 0 dropped
update_base_NoClamp(t) ==
    LET based == IF t.tc_type = "delay" THEN t.base + Min(0, t.inc - t.elapse)
                 ELSE IF t.tc_type = "fischer" THEN t.base + (t.inc - t.elapse)
                 ELSE IF t.tc_type = "timepermove" THEN t.init_base_time
                 ELSE t.base - t.elapse
    IN  [t EXCEPT !.base = based, !.elapse = 0]

\* mutant: delay credits the unused part of the increment, as fischer does
update_base_DelayAdds(t) ==
    LET based == IF t.tc_type = "delay" THEN t.base + (t.inc - t.elapse)
                 ELSE IF t.tc_type = "fischer" THEN t.base + (t.inc - t.elapse)
                 ELSE IF t.tc_type = "timepermove" THEN t.init_base_time
                 ELSE t.base - t.elapse
    IN  [t EXCEPT !.base = Max(0, based), !.elapse = 0]

\* Timer.update_base
update_base(t) ==
    LET based == IF t.tc_type = "delay" THEN t.base + Min(0, t.inc - t.elapse)
                 ELSE IF t.tc_type = "fischer" THEN t.base + (t.inc - t.elapse)
                 ELSE IF t.tc_type = "timepermove" THEN t.init_base_time
                 ELSE t.base - t.elapse
    IN  [t EXCEPT !.base = Max(0, based), !.elapse = 0]

\* the time controls, bases, increments and elapsed times the timer is tried
\* with (ms)
TcTypes == {"fischer", "delay", "timepermove", "classical"}
TimerBases == {0, 100, 10000}
TimerIncs == {0 - 2000, 0, 2000}
TimerElapses == {0, 100, 3000, 20000}
TimerPeriods == {0, 40}

\* mutant: the polling tick is taken off the base at once
Elapse_ChargesBase(t, ms) == [t EXCEPT !.base = @ - ms, !.elapse = @ + ms]

\* mutant: the tick is not counted
Elapse_Skipped(t, ms) == t

\* a caller adds its polling tick to the timer's elapse
Elapse(t, ms) == [t EXCEPT !.elapse = @ + ms]

\* timer.elapse += ms, by the loop that owns the timer
TimerElapse(ms) ==
    /\ updates < MaxUpdates
    /\ timer.elapse = 0
    /\ timer' = Elapse(timer, ms)
    /\ UNCHANGED <<updates, recordVars, reviewVars, puzzleVars, hl, playVars,
                   saveVars, coord>>

\* timer.update_base()
UpdateBase ==
    /\ updates < MaxUpdates
    /\ timer' = update_base(timer)
    /\ updates' = updates + 1
    /\ UNCHANGED <<recordVars, reviewVars, puzzleVars, hl, playVars,
                   saveVars, coord>>

TimerIdle ==
    /\ timer = Timer("fischer", 300000, 10000, 0)
    /\ updates = 0

(***************************************************************************)
(* play_game (RenChess.py): the half-move loop                             *)
(***************************************************************************)
\* RenChessApp.__init__ and main(): the time controls and the book settings
human_base_time_ms == 5 * 60 * 1000
human_inc_time_ms == 10 * 1000
engine_base_time_ms == 3 * 60 * 1000
engine_inc_time_ms == 2 * 1000
is_use_gui_book == TRUE
max_book_ply == 8

\* define_timer
define_timer(name) ==
    IF name = "human"
    THEN Timer("fischer", human_base_time_ms, human_inc_time_ms, 0)
    ELSE Timer("fischer", engine_base_time_ms, engine_inc_time_ms, 0)

\* the locals of play_game before its game loop (lines 1145-1168); source,
\* choosers and entry are history: the move source last asked, the promotion
\* choosers shown, and how the last click on the board was taken
PlayLocals(is_user_white) ==
    [pc |-> "top", is_user_white |-> is_user_white,
     is_human_stm |-> is_user_white, is_engine_ready |-> is_user_white,
     move_state |-> 0, move_from |-> <<>>, piece |-> BLANK,
     moved_piece |-> "None", move_cnt |-> 0,
     is_new_game |-> FALSE, is_exit_game |-> FALSE, is_exit_app |-> FALSE,
     is_user_resigns |-> FALSE, is_user_wins |-> FALSE, is_user_draws |-> FALSE,
     is_search_stop_for |-> {}, source |-> "none", choosers |-> 0,
     entry |-> "idle", book_asked |-> FALSE, popup |-> "none",
     Result |-> "", ret |-> "None"]

\* board.result(claim_draw=True): the side to move is mated, or no result
board_result(g, b) ==
    IF is_game_over(g, b) THEN (IF b.turn THEN "0-1" ELSE "1-0") ELSE "*"

AfterGame_BoardResult(p, g, b) ==
    IF p.is_exit_app
    THEN [p EXCEPT !.Result = board_result(g, b), !.pc = "exited"]
    ELSE [p EXCEPT !.Result = board_result(g, b), !.pc = "returned",
                   !.ret = IF p.is_exit_game THEN "False"
                           ELSE IF p.is_new_game THEN "True" ELSE "False"]

\* after the game loop: the Result tag, the saved game, and the return
\* (sys.exit when the window was closed)
AfterGame(p, g, b) ==
    LET res == IF p.is_user_resigns THEN (IF p.is_user_white THEN "0-1" ELSE "1-0")
               ELSE IF p.is_user_wins THEN (IF p.is_user_white THEN "1-0" ELSE "0-1")
               ELSE IF p.is_user_draws THEN "1/2-1/2"
               ELSE board_result(g, b)
    IN  IF p.is_exit_app
        THEN [p EXCEPT !.Result = res, !.pc = "exited"]
        ELSE [p EXCEPT !.Result = res, !.pc = "returned",
                       !.ret = IF p.is_exit_game THEN "False"
                               ELSE IF p.is_new_game THEN "True" ELSE "False"]

\* the branch of the game loop taken once the engine is ready: the human's
\* wait loop, or the engine's half-move
Branch(p) ==
    IF p.is_human_stm THEN [p EXCEPT !.pc = "human", !.move_state = 0]
    ELSE IF p.is_engine_ready THEN [p EXCEPT !.pc = "engine"]
    ELSE [p EXCEPT !.pc = "go_wait"]

\* `while not board.is_game_over(claim_draw=True)`, up to the next read
LoopTop(p, g, b) ==
    IF is_game_over(g, b) THEN AfterGame(p, g, b)
    ELSE IF ~p.is_engine_ready
    THEN [p EXCEPT !.moved_piece = "None", !.pc = "go_wait"]
    ELSE Branch([p EXCEPT !.moved_piece = "None"])

\* the tests after the human's wait loop (lines 1619-1621)
HumanTail(p, g, b) ==
    IF \/ p.is_new_game \/ p.is_exit_game \/ p.is_exit_app
       \/ p.is_user_resigns \/ p.is_user_wins \/ p.is_user_draws
    THEN AfterGame(p, g, b)
    ELSE LoopTop(p, g, b)

\* the tests after the wait for Engine->Go (lines 1265-1266), then the
\* branches of the same iteration
GoWaitTail(p, g, b) ==
    IF p.is_exit_app \/ p.is_exit_game \/ p.is_new_game
    THEN AfterGame(p, g, b)
    ELSE IF p.is_human_stm \/ p.is_engine_ready THEN Branch(p)
    ELSE LoopTop(p, g, b)

\* update_rook(window, move) has no case for the move string: fr is not bound
update_rook_raises(m) ==
    <<m.from_square, m.to_square>> \notin
        {<<E1, G1>>, <<E1, SQ_C1>>, <<E8, G8>>, <<E8, SQ_C8>>}

\* the rook's squares and code chosen by update_rook
RookFrom(m) ==
    CASE m.to_square = G1 -> H1 [] m.to_square = SQ_C1 -> A1
      [] m.to_square = G8 -> H8 [] m.to_square = SQ_C8 -> A8
RookTo(m) ==
    CASE m.to_square = G1 -> F1 [] m.to_square = SQ_C1 -> SQ_D1
      [] m.to_square = G8 -> F8 [] m.to_square = SQ_C8 -> SQ_D8
RookCode(m) == IF square_rank(m.to_square) = 0 THEN ROOKW ELSE ROOKB

\* mutant: the rook is put down on the king's destination
update_rook_OnKing(psg, m) ==
    [psg EXCEPT ![ButtonOf(RookFrom(m))] = BLANK,
                ![ButtonOf(m.to_square)] = RookCode(m)]

\* update_rook(window, move)
update_rook(psg, m) ==
    [psg EXCEPT ![ButtonOf(RookFrom(m))] = BLANK,
                ![ButtonOf(RookTo(m))] = RookCode(m)]

\* get_promo_piece(move, stm, False): the psg code of the engine's promotion
PromoCode(m, stm) ==
    IF stm
    THEN CASE m.promotion = "Q" -> QUEENW [] m.promotion = "R" -> ROOKW
           [] m.promotion = "B" -> BISHOPW [] m.promotion = "N" -> KNIGHTW
    ELSE CASE m.promotion = "Q" -> QUEENB [] m.promotion = "R" -> ROOKB
           [] m.promotion = "B" -> BISHOPB [] m.promotion = "N" -> KNIGHTB

\* the polling loops add 100 ms to the timer of the side on the move at each
\* read; the model follows a side's wait for MaxTicks reads
CanRead(t) == t.elapse < MaxTicks * 100

\* mutant: the move is counted twice
Committed_CountsTwice(p) ==
    [p EXCEPT !.move_cnt = @ + 2, !.is_human_stm = ~@]

\* move_cnt += 1 ... is_human_stm = not is_human_stm
Committed(p) ==
    [p EXCEPT !.move_cnt = @ + 1, !.is_human_stm = ~@]

\* the human's legal move user_move, from the test of castling to the end of
\* the branch (lines 1544-1607): the loop then reads again
HumanCommit(p, psg, b, t, coloured, user_move) ==
    LET fr == p.move_from
        to == ButtonOf(user_move.to_square)
        castles == is_castling(b, user_move)
        rooked == IF castles THEN update_rook(psg, user_move) ELSE psg
        placed == [rooked EXCEPT ![fr] = BLANK, ![to] = p.piece]
    IN  IF \/ castles /\ update_rook_raises(user_move)
           \/ ~castles /\ is_en_passant(b, user_move)
        THEN \* UnboundLocalError in update_rook; update_ep(user_move,
             \* board.turn) lacks an argument: TypeError
             [pg |-> [p EXCEPT !.pc = "raised"], psg_board |-> psg, board |-> b,
              timer |-> t, hl |-> coloured]
        ELSE [pg |-> [Committed(p) EXCEPT !.entry = "committed"], psg_board |-> placed,
              board |-> push(b, user_move), timer |-> update_base(t),
              hl |-> MoveColoured(user_move)]

\* the engine's or the book's move best_move, from line 1757 to the end of
\* the branch, and on to the next read
EngineCommit(p, g, psg, b, t, coloured, best_move) ==
    LET move_str == str_move(best_move)
        fr == TextButton(move_str, 1)
        to == TextButton(move_str, 3)
        piece == psg[fr]
        lifted == [psg EXCEPT ![fr] = BLANK]
        castles == is_castling(b, best_move)
        is_promote == ~castles /\ ~is_en_passant(b, best_move)
                      /\ best_move.promotion # "None"
        rooked == IF castles THEN update_rook(lifted, best_move) ELSE lifted
        placed == [rooked EXCEPT ![to] = IF is_promote
                                         THEN PromoCode(best_move, b.turn)
                                         ELSE piece]
        pushed == push(b, best_move)
    IN  IF \/ castles /\ update_rook_raises(best_move)
           \/ ~castles /\ is_en_passant(b, best_move)
        THEN [pg |-> [p EXCEPT !.pc = "raised"], psg_board |-> lifted, board |-> b,
              timer |-> t, hl |-> coloured]
        ELSE [pg |-> LoopTop(Committed(p), g, pushed), psg_board |-> placed,
              board |-> pushed, timer |-> update_base(t),
              hl |-> MoveColoured(best_move)]

\* the read of the human's wait loop that follows the human's move: the
\* loop is left by `if not is_human_stm: break` (lines 1283-1284) before
\* any handler has looked at the event ev that was read
PlayAfterMove(ev) ==
    /\ pg.pc = "human"
    /\ ~pg.is_human_stm
    /\ human_timer' = Elapse(human_timer, 100)
    /\ pg' = HumanTail(pg, game, board)
    /\ UNCHANGED <<game, board, psg_board, hl, engine_timer, search, queue,
                   run, input, recordVars, reviewVars, timerVars, saveVars, coord>>

\* the handler of the human's wait loop that takes the event: the tests are
\* made in this order, and a flag left by a stopped search counts as its
\* button
Handler(p, ev) ==
    IF ev \in {"Show::right_search_info_k", "Hide::right_search_info_k",
               "Show::right_book1_k", "Hide::right_book1_k",
               "Show::right_book2_k", "Hide::right_book2_k"} THEN "break"
    ELSE IF ev = "None" THEN "exit"
    ELSE IF "exit" \in p.is_search_stop_for THEN "exit"
    ELSE IF ev = "New::new_game_k" \/ "new_game" \in p.is_search_stop_for THEN "new"
    ELSE IF ev \in {"Save to My Games::save_game_k", "Save to White Repertoire",
                    "Save to Black Repertoire"} THEN "break"
    ELSE IF ev = "Resign::resign_game_k" \/ "resign" \in p.is_search_stop_for
    THEN "resign"
    ELSE IF ev = "User Wins::user_wins_k" \/ "user_wins" \in p.is_search_stop_for
    THEN "wins"
    ELSE IF ev = "User Draws::user_draws_k" \/ "user_draws" \in p.is_search_stop_for
    THEN "draws"
    ELSE IF ev = "Neutral" \/ "neutral" \in p.is_search_stop_for THEN "neutral"
    ELSE IF ev = "About" THEN "break"
    ELSE IF ev = "Go" THEN "go"
    ELSE IF ev = "Paste" THEN "paste"
    ELSE IF ev = "tuple" THEN "click"
    ELSE "none"

\* the human's wait loop reads a click on a board square
PlayClick(button) ==
    /\ pg.pc = "human"
    /\ pg.is_human_stm
    /\ CanRead(human_timer)
    /\ Followed(game, board)
    /\ Handler(pg, "tuple") = "click"
    /\ LET ticked == Elapse(human_timer, 100)
           to_sq == SquareOfButton(button)
           user_move == Mv(SquareOfButton(pg.move_from), to_sq)
       IN  IF pg.move_state = 0
           THEN /\ pg' = [pg EXCEPT !.move_from = button, !.piece = psg_board[button],
                                    !.move_state = 1, !.entry = "selected",
                                    !.moved_piece = piece_type_at(board, to_sq)]
                /\ hl' = change_square_color(hl, button)
                /\ human_timer' = ticked
                /\ UNCHANGED <<board, psg_board>>
           ELSE IF button = pg.move_from
           THEN /\ pg' = [pg EXCEPT !.move_state = 0, !.entry = "cancelled"]
                /\ hl' = RestoreColor(hl, button)
                /\ human_timer' = ticked
                /\ UNCHANGED <<board, psg_board>>
           ELSE IF relative_row(to_sq, board.turn) = RANK_8 /\ pg.moved_piece = "P"
           THEN \* get_promo_piece -> select_promotion_piece calls
                \* self.render_square, which RenChessApp lacks: AttributeError
                /\ pg' = [pg EXCEPT !.pc = "raised"]
                /\ human_timer' = ticked
                /\ UNCHANGED <<board, psg_board, hl>>
           ELSE IF is_legal(game, board, user_move)
           THEN LET done == HumanCommit(pg, psg_board, board, ticked, hl, user_move)
                IN  /\ pg' = done.pg
                    /\ psg_board' = done.psg_board
                    /\ board' = done.board
                    /\ human_timer' = done.timer
                    /\ hl' = done.hl
           ELSE /\ pg' = [pg EXCEPT !.move_state = 0, !.entry = "illegal"]
                /\ hl' = RestoreColor(hl, pg.move_from)
                /\ human_timer' = ticked
                /\ UNCHANGED <<board, psg_board>>
    /\ UNCHANGED <<game, engine_timer, search, queue, run, input,
                   recordVars, reviewVars, timerVars, saveVars, coord>>

\* the button events the human's wait loop is tried with
ControlEvents ==
    {"__TIMEOUT__", "None", "New::new_game_k", "Resign::resign_game_k",
     "User Wins::user_wins_k", "User Draws::user_draws_k", "Neutral", "About",
     "Go", "Show::right_book1_k", "Save to My Games::save_game_k"}

\* the human's wait loop reads a menu event, the window's close or its
\* timeout; reply is the answer to 'Do you really want to resign?'
PlayControl(ev, reply) ==
    /\ pg.pc = "human"
    /\ pg.is_human_stm
    /\ CanRead(human_timer)
    /\ human_timer' = Elapse(human_timer, 100)
    /\ LET h == Handler(pg, ev)
       IN  pg' = CASE h = "break" -> HumanTail(pg, game, board)
                   [] h = "exit" -> HumanTail([pg EXCEPT !.is_exit_app = TRUE], game, board)
                   [] h = "new" -> HumanTail([pg EXCEPT !.is_new_game = TRUE], game, board)
                   [] h = "resign" ->
                        IF reply = "Yes"
                        THEN HumanTail([pg EXCEPT !.is_user_resigns = TRUE], game, board)
                        ELSE [pg EXCEPT !.is_search_stop_for = @ \ {"resign"}]
                   [] h = "wins" -> HumanTail([pg EXCEPT !.is_user_wins = TRUE], game, board)
                   [] h = "draws" -> HumanTail([pg EXCEPT !.is_user_draws = TRUE], game, board)
                   [] h = "neutral" -> HumanTail([pg EXCEPT !.is_exit_game = TRUE], game, board)
                   [] h = "go" -> HumanTail([pg EXCEPT !.is_human_stm = ~@,
                                                       !.is_engine_ready = TRUE], game, board)
                   [] h = "none" -> pg
    /\ UNCHANGED <<game, board, psg_board, hl, engine_timer, search, queue,
                   run, input, recordVars, reviewVars, timerVars, saveVars, coord>>

\* the human's wait loop reads Paste with a FEN on the clipboard: allowed
\* before the first move only
PlayPaste(clip) ==
    /\ pg.pc = "human"
    /\ pg.is_human_stm
    /\ CanRead(human_timer)
    /\ Handler(pg, "Paste") = "paste"
    /\ human_timer' = Elapse(human_timer, 100)
    /\ IF pg.move_cnt > 0
       THEN UNCHANGED <<pg, game, board, psg_board, hl>>
       ELSE /\ game' = clip
            /\ board' = PosBoard(clip)
            /\ psg_board' = fen_to_psg_board(clip.pieces)
            /\ hl' = {}
            /\ pg' = HumanTail([pg EXCEPT !.is_human_stm = clip.turn,
                                          !.is_engine_ready = clip.turn],
                               clip, PosBoard(clip))
    /\ UNCHANGED <<engine_timer, search, queue, run, input,
                   recordVars, reviewVars, timerVars, saveVars, coord>>

\* the wait for Engine->Go reads an event
GoWait(ev) ==
    /\ pg.pc = "go_wait"
    /\ pg' = CASE ev = "New::new_game_k" ->
                     GoWaitTail([pg EXCEPT !.is_new_game = TRUE], game, board)
               [] ev = "Neutral" ->
                     GoWaitTail([pg EXCEPT !.is_exit_game = TRUE], game, board)
               [] ev = "Go" ->
                     GoWaitTail([pg EXCEPT !.is_engine_ready = TRUE], game, board)
               [] ev = "None" ->
                     GoWaitTail([pg EXCEPT !.is_exit_app = TRUE], game, board)
    /\ UNCHANGED <<game, board, psg_board, hl, human_timer, engine_timer,
                   search, queue, run, input, recordVars, reviewVars, timerVars, saveVars, coord>>

\* the wait for Engine->Go reads Paste with a FEN on the clipboard
GoWaitPaste(clip) ==
    /\ pg.pc = "go_wait"
    /\ game' = clip
    /\ board' = PosBoard(clip)
    /\ psg_board' = fen_to_psg_board(clip.pieces)
    /\ hl' = {}
    /\ LET stm == IF ~pg.is_user_white /\ ~clip.turn THEN TRUE
                  ELSE IF ~pg.is_user_white /\ clip.turn THEN FALSE
                  ELSE pg.is_human_stm
       IN  pg' = GoWaitTail([pg EXCEPT !.is_human_stm = stm, !.is_engine_ready = stm],
                            clip, PosBoard(clip))
    /\ UNCHANGED <<human_timer, engine_timer, search, queue, run, input,
                   recordVars, reviewVars, timerVars, saveVars, coord>>

(***************************************************************************)
(* The search thread (RunEngine of engine.py, which is not in src/):       *)
(* started on a position, it puts search information and then one          *)
(* bestmove message on the queue and ends; stop() makes it move now.        *)
(* was_stopped is history: some search of the game was told to stop.       *)
(***************************************************************************)
NoSearch == [started |-> 0, running |-> {}, undisposed |-> {}, stopped |-> {},
             kind |-> "none", was_stopped |-> FALSE]

\* RunEngine(...); search.get_board(board); search.start()
start_search(sr, kind) ==
    [sr EXCEPT !.started = @ + 1, !.running = @ \cup {sr.started + 1},
               !.undisposed = @ \cup {sr.started + 1}, !.kind = kind]

\* search.stop()
stop_search(sr) == [sr EXCEPT !.stopped = @ \cup {sr.started}, !.was_stopped = TRUE]

\* mutant: the loop is left without search.join() and search.quit_engine()
Dispose_Skipped(sr) == sr

\* search.join(); search.quit_engine()
Dispose(sr) == [sr EXCEPT !.undisposed = @ \ {sr.started}, !.stopped = {}]

InfoMsg == [bestmove |-> FALSE, usable |-> FALSE, move |-> Mv(0, 0)]
BestMoveMsg(m) == [bestmove |-> TRUE, usable |-> TRUE, move |-> m]
DeadMsg == [bestmove |-> TRUE, usable |-> FALSE, move |-> Mv(0, 0)]

\* the thread reports a line of search information
EngineInfo ==
    /\ search.running # {}
    /\ search.running \cap search.stopped = {}
    /\ Len(queue) < MaxQueue
    /\ queue' = Append(queue, InfoMsg)
    /\ UNCHANGED <<search, pg, game, board, psg_board, hl, human_timer,
                   engine_timer, run, input, recordVars, reviewVars, timerVars, saveVars, coord>>

\* the thread reports its best move, or a bestmove that is no move when the
\* engine died, and ends
EngineBestMove(msg) ==
    /\ search.running # {}
    /\ queue' = Append(queue, msg)
    /\ search' = [search EXCEPT !.running = {}]
    /\ UNCHANGED <<pg, game, board, psg_board, hl, human_timer,
                   engine_timer, run, input, recordVars, reviewVars, timerVars, saveVars, coord>>

\* the human's wait loop reads Start of the adviser menu: a search is
\* started on the position
PlayAdviserStart ==
    /\ pg.pc = "human"
    /\ pg.is_human_stm
    /\ CanRead(human_timer)
    /\ search.started < MaxSearches
    /\ human_timer' = Elapse(human_timer, 100)
    /\ search' = start_search(search, "adviser")
    /\ pg' = [pg EXCEPT !.pc = "adviser"]
    /\ UNCHANGED <<game, board, psg_board, hl, engine_timer, queue, run, input,
                   recordVars, reviewVars, timerVars, saveVars, coord>>

\* one iteration of the loop that waits for the adviser (lines 1305-1343)
AdviserRead(ev) ==
    /\ pg.pc = "adviser"
    /\ LET stopping == ev \in {"Stop::right_adviser_k", "None"}
           flagged == IF ev = "None"
                      THEN [pg EXCEPT !.is_search_stop_for = @ \cup {"exit"}]
                      ELSE pg
           signalled == IF stopping THEN stop_search(search) ELSE search
       IN  IF queue = <<>>
           THEN /\ stopping
                /\ pg' = flagged
                /\ search' = signalled
                /\ UNCHANGED queue
           ELSE /\ queue' = Tail(queue)
                /\ IF Head(queue).bestmove
                   THEN /\ search.running = {}
                        /\ search' = Dispose(signalled)
                        /\ pg' = HumanTail(flagged, game, board)
                   ELSE /\ search' = signalled
                        /\ pg' = flagged
    /\ UNCHANGED <<game, board, psg_board, hl, human_timer, engine_timer,
                   run, input, recordVars, reviewVars, timerVars, saveVars, coord>>

BookQueried_UntilMiss(p) ==
    is_use_gui_book /\ p.move_cnt <= max_book_ply /\ p.source # "engine"

\* the test that sends the engine's half-move to the book (line 1630)
BookQueried(p) ==
    is_use_gui_book /\ p.move_cnt <= max_book_ply

\* the engine's half-move, the book holding a move for the position
BookMove(best_move) ==
    /\ pg.pc = "engine"
    /\ BookQueried(pg)
    /\ LET done == EngineCommit([pg EXCEPT !.source = "book", !.book_asked = TRUE],
                                game, psg_board,
                                board, engine_timer, hl, best_move)
       IN  /\ pg' = done.pg
           /\ psg_board' = done.psg_board
           /\ board' = done.board
           /\ engine_timer' = done.timer
           /\ hl' = done.hl
    /\ UNCHANGED <<game, human_timer, search, queue, run, input,
                   recordVars, reviewVars, timerVars, saveVars, coord>>

\* the engine's half-move, the book giving no move (no book file, no entry,
\* or past max_book_ply): the search is started
StartSearch ==
    /\ pg.pc = "engine"
    /\ Followed(game, board)
    /\ search' = start_search(search, "opponent")
    /\ pg' = [pg EXCEPT !.pc = "search", !.source = "engine",
                        !.book_asked = BookQueried(pg)]
    /\ UNCHANGED <<game, board, psg_board, hl, human_timer, engine_timer, queue,
                   run, input, recordVars, reviewVars, timerVars, saveVars, coord>>

\* the button events the wait for the engine is tried with, and the flag
\* each leaves
SearchEvents ==
    {"__TIMEOUT__", "Show::right_search_info_k", "Hide::right_search_info_k",
     "Show::right_book1_k", "Hide::right_book1_k", "Show::right_book2_k",
     "Hide::right_book2_k", "None", "New::new_game_k", "Move Now", "Neutral",
     "Resign::resign_game_k", "User Wins::user_wins_k", "User Draws::user_draws_k"}

SignalsStop_NotMoveNow(ev) ==
    ev \in {"None", "New::new_game_k", "Neutral", "Resign::resign_game_k",
            "User Wins::user_wins_k", "User Draws::user_draws_k"}

\* the events whose handler in the wait for the engine calls search.stop()
\* (lines 1706-1733)
SignalsStop(ev) ==
    ev \in {"None", "New::new_game_k", "Move Now", "Neutral",
            "Resign::resign_game_k", "User Wins::user_wins_k",
            "User Draws::user_draws_k"}

update_text_box_Silent(msg) ==
    [best_move |-> IF msg.bestmove /\ msg.usable THEN <<msg.move>> ELSE <<>>,
     popup |-> "none"]

\* update_text_box (lines 760-784) on a queue message: the move of a
\* bestmove message that parses, None (the empty tuple) otherwise; a bestmove
\* that does not parse is reported in a popup
update_text_box(msg) ==
    [best_move |-> IF msg.bestmove /\ msg.usable THEN <<msg.move>> ELSE <<>>,
     popup |-> IF msg.bestmove /\ ~msg.usable THEN "Engine error" ELSE "none"]

StopFlag(ev) ==
    CASE ev = "None" -> {"exit"}
      [] ev = "New::new_game_k" -> {"new_game"}
      [] ev = "Neutral" -> {"neutral"}
      [] ev = "Resign::resign_game_k" -> {"resign"}
      [] ev = "User Wins::user_wins_k" -> {"user_wins"}
      [] ev = "User Draws::user_draws_k" -> {"user_draws"}
      [] OTHER -> {}

\* one iteration of the loop that waits for the engine (lines 1654-1746),
\* and, on the bestmove message, the rest of the half-move
SearchRead(ev) ==
    /\ pg.pc = "search"
    /\ CanRead(engine_timer)
    /\ LET ticked == Elapse(engine_timer, 100)
           flagged == [pg EXCEPT !.is_search_stop_for = @ \cup StopFlag(ev)]
           signalled == IF SignalsStop(ev) THEN stop_search(search) ELSE search
       IN  IF queue = <<>>
           THEN /\ pg' = flagged
                /\ search' = signalled
                /\ engine_timer' = ticked
                /\ UNCHANGED <<queue, board, psg_board, hl>>
           ELSE /\ queue' = Tail(queue)
                /\ IF ~Head(queue).bestmove
                   THEN /\ pg' = flagged
                        /\ search' = signalled
                        /\ engine_timer' = ticked
                        /\ UNCHANGED <<board, psg_board, hl>>
                   ELSE /\ search.running = {}
                        /\ search' = Dispose(signalled)
                        /\ IF update_text_box(Head(queue)).best_move = <<>>
                           THEN \* `if best_move is None: break`
                                /\ pg' = AfterGame(
                                       [flagged EXCEPT !.popup =
                                            update_text_box(Head(queue)).popup],
                                       game, board)
                                /\ engine_timer' = ticked
                                /\ UNCHANGED <<board, psg_board, hl>>
                           ELSE LET done == EngineCommit(flagged, game, psg_board, board,
                                                         ticked, hl, Head(queue).move)
                                IN  /\ pg' = done.pg
                                    /\ psg_board' = done.psg_board
                                    /\ board' = done.board
                                    /\ engine_timer' = done.timer
                                    /\ hl' = done.hl
    /\ UNCHANGED <<game, human_timer, run, input, recordVars, reviewVars, timerVars, saveVars, coord>>

\* play_game is entered (play_game_main_loop) and reaches its first read
PlayStart(is_user_white) ==
    LoopTop(PlayLocals(is_user_white), PosStart, PosBoard(PosStart))

\* no game is played
PlayIdle ==
    /\ hl = {}
    /\ psg_board = initial_board
    /\ pg = PlayLocals(TRUE)
    /\ human_timer = define_timer("human")
    /\ engine_timer = define_timer("engine")
    /\ search = NoSearch
    /\ queue = <<>>

\* no batch of puzzles is played; the file holds the record set that
\* User.__init__ read from it
SaveIdle ==
    /\ disk = record
    /\ batch = [pc |-> "none"]

\* no conversion is made
CoordIdle == [op |-> "none"]

Init ==
    /\ record = EmptyDict
    /\ today = 0
    /\ streak = [i \in PuzzleIds |-> -1]
    /\ max_item = 0
    /\ review = ReviewIdle
    /\ SaveIdle
    /\ coord = CoordIdle
    /\ game = PuzzlePlain
    /\ board = GameBoard(PuzzlePlain)
    /\ run = PuzzleStart
    /\ input = InputStart
    /\ PlayIdle
    /\ TimerIdle

Next ==
    \/ \E puzzle_set \in Sections, puzzle_id \in PuzzleIds, result \in Ranks :
           AddActivity(puzzle_set, puzzle_id, result)
    \/ Tick

Spec == Init /\ [][Next]_vars

\* the record sets add_activity can have built by day now
RecordSets(now) ==
    {EmptyDict} \cup
    {[s \in Sections |-> items] :
        items \in UNION {[{Str(i) : i \in P} ->
                             {RecordValue(d, g) : d \in 0..now, g \in 0..6}] :
                         P \in SUBSET PuzzleIds}}

InitReview ==
    /\ today \in 0..MaxDay
    /\ record \in RecordSets(today)
    /\ streak = [i \in PuzzleIds |-> -1]
    /\ max_item \in 0..MaxK
    /\ review = ReviewIdle
    /\ SaveIdle
    /\ coord = CoordIdle
    /\ game = PuzzlePlain
    /\ board = GameBoard(PuzzlePlain)
    /\ run = PuzzleStart
    /\ input = InputStart
    /\ PlayIdle
    /\ TimerIdle

NextReview == GetReviewItems

SpecReview == InitReview /\ [][NextReview]_vars

\* a puzzle of the book has been prepared (prepare_play_puzzle)
InitPuzzle ==
    /\ record = EmptyDict
    /\ today = 0
    /\ streak = [i \in PuzzleIds |-> -1]
    /\ max_item = 0
    /\ review = ReviewIdle
    /\ SaveIdle
    /\ coord = CoordIdle
    /\ game \in PuzzleBook
    /\ board = GameBoard(game)
    /\ run = PuzzleStart
    /\ input = InputStart
    /\ PlayIdle
    /\ TimerIdle

NextPuzzle ==
    \/ StartRun
    \/ ScriptedPly
    \/ \E button \in Buttons(game) : ClickSquare(button)
    \/ CloseWindow
    \/ \E button \in {"None", "puzzle_next", "back_to_main"} : ClearedEvent(button)

SpecPuzzle == InitPuzzle /\ [][NextPuzzle]_vars

\* a Timer is made, time passes, update_base is called
InitTimer ==
    /\ record = EmptyDict
    /\ today = 0
    /\ streak = [i \in PuzzleIds |-> -1]
    /\ max_item = 0
    /\ review = ReviewIdle
    /\ SaveIdle
    /\ coord = CoordIdle
    /\ game = PuzzlePlain
    /\ board = GameBoard(PuzzlePlain)
    /\ run = PuzzleStart
    /\ input = InputStart
    /\ PlayIdle
    /\ timer \in {Timer(tc, b, i, pm) : tc \in TcTypes, b \in TimerBases,
                                         i \in TimerIncs, pm \in TimerPeriods}
    /\ updates = 0

NextTimer ==
    \/ \E ms \in TimerElapses : TimerElapse(ms)
    \/ UpdateBase

SpecTimer == InitTimer /\ [][NextTimer]_vars

\* play_game is entered on the starting position, the user having White or
\* Black; the moves of a game are followed with the events that bear on
\* them (the clock's timeout, Go, Paste, the adviser, Move Now, the window's
\* close)
InitGame ==
    /\ record = EmptyDict
    /\ today = 0
    /\ streak = [i \in PuzzleIds |-> -1]
    /\ max_item = 0
    /\ review = ReviewIdle
    /\ SaveIdle
    /\ coord = CoordIdle
    /\ run = [PuzzleStart EXCEPT !.pc = "none"]
    /\ input = InputStart
    /\ TimerIdle
    /\ game = PosStart
    /\ board = PosBoard(PosStart)
    /\ hl = {}
    /\ psg_board = initial_board
    /\ pg \in {PlayStart(w) : w \in BOOLEAN}
    /\ human_timer = define_timer("human")
    /\ engine_timer = define_timer("engine")
    /\ search = NoSearch
    /\ queue = <<>>

NextGame ==
    \/ \E ev \in {"__TIMEOUT__", "None"} : PlayAfterMove(ev)
    \/ \E button \in PosButtons(game) : PlayClick(button)
    \/ \E ev \in {"__TIMEOUT__", "Go", "None", "Show::right_book1_k"} :
           PlayControl(ev, "No")
    \/ \E clip \in Clipboard : PlayPaste(clip)
    \/ \E ev \in {"New::new_game_k", "Neutral", "Go", "None"} : GoWait(ev)
    \/ \E clip \in Clipboard : GoWaitPaste(clip)
    \/ PlayAdviserStart
    \/ \E ev \in {"__TIMEOUT__", "Stop::right_adviser_k", "None"} : AdviserRead(ev)
    \/ \E best_move \in EngineMoves(game, board) : BookMove(best_move)
    \/ StartSearch
    \/ \E ev \in {"__TIMEOUT__", "Move Now", "None"} : SearchRead(ev)
    \/ EngineInfo
    \/ \E msg \in {BestMoveMsg(m) : m \in EngineMoves(game, board)} \cup {DeadMsg} :
           EngineBestMove(msg)

SpecGame == InitGame /\ [][NextGame]_vars

\* the two move-entry loops: a session plays a game or a puzzle
InitEntry == InitGame \/ InitPuzzle
NextEntry ==
    \/ run.pc = "none" /\ NextGame
    \/ run.pc # "none" /\ NextPuzzle
SpecEntry == InitEntry /\ [][NextEntry]_vars

(***************************************************************************)
(* Claims about the record store (Spec)                                    *)
(***************************************************************************)

\* C1: after any sequence of add_activity calls every stored record has a
\* stage in 0..6.
C1_StageInRange == \A k \in Keys(record) : StageOf(record, k) \in 0..6

\* C1 witness: both ends of the range were exercised: a record stands at
\* stage 0 or at stage 6 while another puzzle's record has just been retired
\* by the call that would have stored stage 7.
C1_Witness ==
    /\ \E k \in Keys(record) : StageOf(record, k) \in {0, 6}
    /\ \E i \in PuzzleIds : streak[i] = 7

\* what C2 says one call does to a puzzle that has a record at stage s
C2_Post(puzzle_set, puzzle_id, result) ==
    LET k == <<puzzle_set, Str(puzzle_id)>>
        s == StageOf(record, k)
        s2 == IF result = "S" THEN s + 1 ELSE IF s >= 1 THEN s - 1 ELSE 0
    IN  /\ IF s2 < 7
           THEN /\ k \in Keys(record')
                /\ StageOf(record', k) = s2
                /\ DaysOf(record', k) = today
           ELSE k \notin Keys(record')
        /\ Keys(record') \ {k} = Keys(record) \ {k}
        /\ \A k2 \in Keys(record) \ {k} :
               record'[k2[1]][k2[2]] = record[k2[1]][k2[2]]

\* C2: for a puzzle with a record at stage s, rank S gives s' = s + 1 and any
\* other rank s' = max(s - 1, 0); s' < 7 stores (today, s'), s' >= 7 deletes
\* the record; the records of other puzzles are unchanged.
C2_StageTransition ==
    [][\A puzzle_set \in Sections, puzzle_id \in PuzzleIds, result \in Ranks :
           (HasRecord(record, puzzle_set, puzzle_id)
            /\ AddActivity(puzzle_set, puzzle_id, result))
           => C2_Post(puzzle_set, puzzle_id, result)]_vars

\* C2 witness: a later day, one record retired by an S at stage 6 and another
\* record that a non-S rank has moved back to a stage above 0.
C2_Witness ==
    /\ today > 0
    /\ \E i \in PuzzleIds : streak[i] = 7
    /\ \E i \in PuzzleIds :
           /\ streak[i] = -1
           /\ \E puzzle_set \in Sections :
                  /\ HasRecord(record, puzzle_set, i)
                  /\ StageOf(record, <<puzzle_set, Str(i)>>) >= 1
                  /\ DaysOf(record, <<puzzle_set, Str(i)>>) = today

\* C3: from a record at stage 0, after the k-th consecutive S call for that
\* puzzle the record is present at stage k (k = 1..6); after the 7th call it
\* is absent, and not before.
C3_SevenSuccesses ==
    \A puzzle_set \in Sections, i \in PuzzleIds :
        /\ streak[i] <= 7
        /\ streak[i] \in 0..6 =>
               /\ HasRecord(record, puzzle_set, i)
               /\ StageOf(record, <<puzzle_set, Str(i)>>) = streak[i]
        /\ streak[i] = 7 => ~HasRecord(record, puzzle_set, i)

\* C3 witness: a 7th consecutive S call has been made for some puzzle.
C3_Witness == \E i \in PuzzleIds : streak[i] = 7

\* C4: once a puzzle's record has been deleted at stage 7 (here: by the 7th
\* consecutive S), no later add_activity call puts a record for that puzzle
\* back.
C4_RetiredStaysOut ==
    [][\A puzzle_set \in Sections, i \in PuzzleIds :
           (streak[i] = 7 /\ ~HasRecord(record, puzzle_set, i))
           => ~HasRecord(record', puzzle_set, i)]_vars

(***************************************************************************)
(* Claims about get_review_items (SpecReview)                              *)
(***************************************************************************)
Returned == review.pc = "returned"
Called == review.pc # "idle"
ResultSet == {review.results[i] : i \in 1..Len(review.results)}
PriorityOf(k) == Priority(StageOf(record, k), today, DaysOf(record, k))
PosOf(k) == CHOOSE i \in 1..Len(review.results) : review.results[i] = k
MinOf(a, b) == IF a < b THEN a ELSE b

\* C5: for every record set and every K the call returns at most K records,
\* none without a record, visits every record exactly once and never holds
\* more than K candidates.
C5_BoundedScan ==
    Called =>
        /\ Len(review.results) <= max_item
        /\ ResultSet \subseteq Keys(record)
        /\ review.held <= max_item
        /\ Len(review.visited) = Cardinality(Keys(record))
        /\ {review.visited[i] : i \in 1..Len(review.visited)} = Keys(record)

\* C6: the call returns exactly min(K, N) records, those of largest priority,
\* ordered from highest priority to lowest.
C6_TopK ==
    Called =>
        /\ Returned
        /\ Len(review.results) = MinOf(max_item, Cardinality(Keys(record)))
        /\ Cardinality(ResultSet) = Len(review.results)
        /\ \A k \in ResultSet : \A u \in Keys(record) \ ResultSet :
               PriorityOf(k) >= PriorityOf(u)
        /\ \A i, j \in 1..Len(review.results) :
               i < j => PriorityOf(review.results[i]) >= PriorityOf(review.results[j])

\* C7: a stage-0 record outranks a stage-6 record for any two recencies
\* within one memory-curve interval (the priority is monotone in the recency,
\* so the ends 0 and 21 of the interval decide): the stage-6 record is returned only
\* after the stage-0 one, and with K = 1 and only these two the stage-0
\* record is the one returned.
C7_Stage0BeforeStage6 ==
    /\ \A d0, d6 \in {0, memory_curve[7]} :
           Priority(0, memory_curve[7], memory_curve[7] - d0)
               > Priority(6, memory_curve[7], memory_curve[7] - d6)
    /\ Returned =>
           \A k0, k6 \in Keys(record) :
               (StageOf(record, k0) = 0 /\ StageOf(record, k6) = 6) =>
                   /\ PriorityOf(k0) > PriorityOf(k6)
                   /\ k6 \in ResultSet =>
                          (k0 \in ResultSet /\ PosOf(k0) < PosOf(k6))
                   /\ (max_item = 1 /\ Keys(record) = {k0, k6}) =>
                          review.results = <<k0>>

\* C7 witness: K = 1, the stage-6 record is the older one and was visited
\* first, and the stage-0 record replaced it.
C7_Witness ==
    /\ Returned
    /\ max_item = 1
    /\ \E k0, k6 \in Keys(record) :
           /\ StageOf(record, k0) = 0
           /\ StageOf(record, k6) = 6
           /\ DaysOf(record, k6) < DaysOf(record, k0)
           /\ review.visited = <<k6, k0>>
           /\ review.results = <<k0>>

(***************************************************************************)
(* Claims about Puzzle.run (SpecPuzzle)                                    *)
(***************************************************************************)
\* the second click submits a legal move whose notation differs from the
\* script's move for the current ply
SubmitsWrongMove(button) ==
    /\ run.pc = "input"
    /\ input.move_state = 1
    /\ button # input.move_from
    /\ ~IsPromote(button)
    /\ UserMove(button) \in legal_moves(game, board)
    /\ san(board, legal_moves(game, board), UserMove(button))
           # san(board, legal_moves(game, board), game.script[run.ply])

Completed ==
    /\ run.pc \in {"cleared", "done"}
    /\ Len(board.move_stack) = Len(game.script)

EntryButtons == IF run.pc = "none" THEN PosButtons(game) ELSE Buttons(game)

\* C11: in play_game and in Game.get_user_input, a click on the selected
\* square cancels the selection: the loop is back in state 0 with no move,
\* the board position, the move count and the clock base are as they were,
\* the square has its board colour again; a click in state 0 is taken as a
\* new selection of the from-square
C11_SameSquareCancels ==
    [][ /\ (pg.move_state = 1 /\ PlayClick(pg.move_from)) =>
              /\ pg'.pc = "human"
              /\ pg'.move_state = 0
              /\ board' = board
              /\ psg_board' = psg_board
              /\ pg'.move_cnt = pg.move_cnt
              /\ pg'.is_human_stm = pg.is_human_stm
              /\ human_timer'.base = human_timer.base
              /\ engine_timer' = engine_timer
              /\ pg.move_from \notin hl'
        /\ (input.move_state = 1 /\ ClickSquare(input.move_from)) =>
              /\ run' = run
              /\ input'.move_state = 0
              /\ board' = board
              /\ input.move_from \notin hl'
        /\ \A button \in EntryButtons :
              /\ (pg.move_state = 0 /\ PlayClick(button)) =>
                    /\ pg'.move_state = 1
                    /\ pg'.move_from = button
                    /\ pg'.move_cnt = pg.move_cnt
                    /\ board' = board
                    /\ button \in hl'
              /\ (input.move_state = 0 /\ ClickSquare(button)) =>
                    /\ input'.move_state = 1
                    /\ input'.move_from = button
                    /\ run' = run
                    /\ board' = board
                    /\ button \in hl'
      ]_vars

\* the human of play_game selected a square and clicked it again
C11_Witness ==
    /\ pg.pc = "human"
    /\ pg.entry = "cancelled"
    /\ pg.move_state = 0
    /\ pg.move_from \notin hl
    /\ pg.move_cnt = 0
    /\ human_timer.base = human_base_time_ms

\* the candidate moves a second click on button may form: with a promotion
\* piece when a pawn reaches the last rank, plain otherwise
CandidateMoves(fr, button, promotes) ==
    IF promotes
    THEN {MvP(SquareOfButton(fr), SquareOfButton(button), pt) : pt \in {"Q", "R", "B", "N"}}
    ELSE {Mv(SquareOfButton(fr), SquareOfButton(button))}

\* C12: with a from-square selected, a click on another square that forms
\* no legal move emits no move: nothing is pushed, the move count, the
\* clocks' base and the side to move stay, the from-square has its board
\* colour again and the loop is back in state 0
C12_IllegalMoveRejected ==
    [][ \A button \in EntryButtons :
          /\ ( /\ pg.move_state = 1
               /\ button # pg.move_from
               /\ \A m \in CandidateMoves(pg.move_from, button,
                              relative_row(SquareOfButton(button), board.turn) = RANK_8
                              /\ pg.moved_piece = "P") :
                     ~is_legal(game, board, m)
               /\ PlayClick(button) ) =>
                 /\ pg'.pc = "human"
                 /\ pg'.move_state = 0
                 /\ board' = board
                 /\ psg_board' = psg_board
                 /\ pg'.move_cnt = pg.move_cnt
                 /\ pg'.is_human_stm = pg.is_human_stm
                 /\ human_timer'.base = human_timer.base
                 /\ engine_timer' = engine_timer
                 /\ pg.move_from \notin hl'
          /\ ( /\ input.move_state = 1
               /\ button # input.move_from
               /\ \A m \in CandidateMoves(input.move_from, button, IsPromote(button)) :
                     m \notin legal_moves(game, board)
               /\ ClickSquare(button) ) =>
                 /\ run' = run
                 /\ input'.move_state = 0
                 /\ board' = board
                 /\ input.move_from \notin hl'
      ]_vars

(***************************************************************************)
(* play_game: the side effects of a committed move                         *)
(***************************************************************************)
\* the step pushes one move on the rules-engine board of the game played
Pushes == game' = game /\ Len(board'.move_stack) = Len(board.move_stack) + 1

\* the move a pushing step pushed
PushedMove == board'.move_stack[Len(board'.move_stack)]

\* the legal moves of the position on the board
LegalNow == IF Followed(game, board) THEN game.tree[board.move_stack] ELSE {}

\* the step is the human's second click, which forms the legal move m
HumanEnters(m) ==
    /\ pg.move_state = 1
    /\ m \in LegalNow
    /\ m.from_square = SquareOfButton(pg.move_from)
    /\ PlayClick(ButtonOf(m.to_square))

\* the step takes the move m from the book, or from the engine's bestmove
\* message
EngineReturns(m) ==
    \/ BookMove(m)
    \/ /\ pg.pc = "search"
       /\ queue # <<>>
       /\ Head(queue) = BestMoveMsg(m)
       /\ \E ev \in SearchEvents : SearchRead(ev)

\* C13: a legal castling move entered by the human or returned by the engine
\* or the book in play_game relocates one rook, the one of the king's
\* destination (e1g1: h1 to f1, e1c1: a1 to d1, e8g8: h8 to f8, e8c8: a8 to
\* d8): after it the UI board has the king on its destination, the rook on
\* its new square, both origins blank and every other square as before, and
\* the move is pushed
C13_CastlingMovesRook ==
    [][ \A m \in LegalNow :
          (is_castling(board, m) /\ (HumanEnters(m) \/ EngineReturns(m))) =>
            LET king == IF board.turn THEN KINGW ELSE KINGB
                rook == IF board.turn THEN ROOKW ELSE ROOKB
                kingTo == IF square_file(m.to_square) > 4
                          THEN Sq(6, square_rank(m.to_square))
                          ELSE Sq(2, square_rank(m.to_square))
                pair == IF kingTo = G1 THEN <<H1, F1>>
                        ELSE IF kingTo = SQ_C1 THEN <<A1, SQ_D1>>
                        ELSE IF kingTo = G8 THEN <<H8, F8>>
                        ELSE <<A8, SQ_D8>>
            IN  /\ pg'.pc # "raised"
                /\ psg_board' = [psg_board EXCEPT ![ButtonOf(m.from_square)] = BLANK,
                                                  ![ButtonOf(pair[1])] = BLANK,
                                                  ![ButtonOf(kingTo)] = king,
                                                  ![ButtonOf(pair[2])] = rook]
                /\ board' = push(board, m)
      ]_vars

\* C13, for the castling moves written as the king's move of two files: the
\* claim's four moves
C13_TwoFileCastlingMovesRook ==
    [][ \A m \in LegalNow :
          (is_castling(board, m) /\ ~update_rook_raises(m)
           /\ (HumanEnters(m) \/ EngineReturns(m))) =>
            LET king == IF board.turn THEN KINGW ELSE KINGB
                rook == IF board.turn THEN ROOKW ELSE ROOKB
                pair == IF m.to_square = G1 THEN <<H1, F1>>
                        ELSE IF m.to_square = SQ_C1 THEN <<A1, SQ_D1>>
                        ELSE IF m.to_square = G8 THEN <<H8, F8>>
                        ELSE <<A8, SQ_D8>>
            IN  /\ pg'.pc # "raised"
                /\ psg_board' = [psg_board EXCEPT ![ButtonOf(m.from_square)] = BLANK,
                                                  ![ButtonOf(pair[1])] = BLANK,
                                                  ![ButtonOf(m.to_square)] = king,
                                                  ![ButtonOf(pair[2])] = rook]
                /\ board' = push(board, m)
      ]_vars

\* C14: a legal en-passant capture entered by the human or returned by the
\* engine in play_game blanks the captured pawn's square on the UI board,
\* the destination less one rank when White moves and plus one rank when
\* Black moves, a square other than the destination; the move is then
\* pushed, the move count grows by one and the side to move flips
C14_EnPassantBlanksPawn ==
    [][ \A m \in LegalNow :
          (is_en_passant(board, m) /\ (HumanEnters(m) \/ EngineReturns(m))) =>
            LET captured == IF board.turn THEN m.to_square - 8 ELSE m.to_square + 8
            IN  /\ captured # m.to_square
                /\ pg'.pc # "raised"
                /\ psg_board'[ButtonOf(captured)] = BLANK
                /\ psg_board'[ButtonOf(m.from_square)] = BLANK
                /\ psg_board'[ButtonOf(m.to_square)] = psg_board[ButtonOf(m.from_square)]
                /\ board' = push(board, m)
                /\ pg'.move_cnt = pg.move_cnt + 1
                /\ pg'.is_human_stm = ~pg.is_human_stm
      ]_vars

\* the pieces a promoted pawn of the side stm becomes on the UI board
PromotedCodes(stm) ==
    IF stm THEN {QUEENW, ROOKW, BISHOPW, KNIGHTW} ELSE {QUEENB, ROOKB, BISHOPB, KNIGHTB}

\* C15: in play_game, when the human's selected piece is a pawn and the
\* second click is on relative rank 7 of the side to move, the promotion
\* chooser is requested once and the candidate move carries the piece chosen
\* (the queen when the chooser is dismissed); if that move is legal the UI
\* destination holds the promoted piece in the mover's colour. For any other
\* piece or rank no chooser is requested and the move has no promotion piece
C15_PromotionChooser ==
    [][ \A button \in PosButtons(game) :
          (pg.move_state = 1 /\ button # pg.move_from /\ PlayClick(button)) =>
            IF relative_row(SquareOfButton(button), board.turn) = RANK_8
               /\ pg.moved_piece = "P"
            THEN /\ pg'.pc # "raised"
                 /\ pg'.choosers = pg.choosers + 1
                 /\ (\E m \in CandidateMoves(pg.move_from, button, TRUE) :
                        is_legal(game, board, m)) =>
                      /\ Len(board'.move_stack) = Len(board.move_stack) + 1
                      /\ board'.move_stack[Len(board'.move_stack)]
                           \in CandidateMoves(pg.move_from, button, TRUE)
                      /\ psg_board'[button] \in PromotedCodes(board.turn)
            ELSE /\ pg'.choosers = pg.choosers
                 /\ Len(board'.move_stack) > Len(board.move_stack) =>
                      board'.move_stack[Len(board'.move_stack)].promotion = "None"
      ]_vars

\* C15, for the second clicks that do not ask for a promotion: no chooser,
\* no promotion piece in the move
C15_NoChooserElsewhere ==
    [][ \A button \in PosButtons(game) :
          (pg.move_state = 1 /\ button # pg.move_from /\ PlayClick(button)
           /\ ~(relative_row(SquareOfButton(button), board.turn) = RANK_8
                /\ pg.moved_piece = "P")) =>
            /\ pg'.choosers = pg.choosers
            /\ Len(board'.move_stack) > Len(board.move_stack) =>
                 board'.move_stack[Len(board'.move_stack)].promotion = "None"
      ]_vars

(***************************************************************************)
(* Timer.update_base                                                       *)
(***************************************************************************)
\* the step is a call of update_base
UpdateBaseCalled == updates' = updates + 1

\* C16: update_base with the fischer policy sets base to base + inc - elapse
\* (base 10000, inc 2000, elapse 3000 give 9000), and whatever the policy,
\* the increment (negative ones too) and the elapse (larger than base too)
\* the base it leaves is never negative
C16_FischerAndNeverNegative ==
    [][ UpdateBaseCalled =>
          /\ timer'.base >= 0
          /\ (timer.tc_type = "fischer" /\ timer.base + timer.inc - timer.elapse >= 0) =>
                timer'.base = timer.base + timer.inc - timer.elapse
          /\ (timer.tc_type = "fischer" /\ timer.base + timer.inc - timer.elapse < 0) =>
                timer'.base = 0
          /\ (timer.tc_type = "fischer" /\ timer.base = 10000 /\ timer.inc = 2000
              /\ timer.elapse = 3000) => timer'.base = 9000
      ]_vars

\* a fischer timer of base 10000 and increment 2000 was updated after 3000 ms
C16_Witness ==
    /\ timer.tc_type = "fischer"
    /\ timer.init_base_time = 10000
    /\ timer.inc = 2000
    /\ timer.base = 9000
    /\ timer.elapse = 0
    /\ updates = 1

\* C17: update_base with the delay policy adds min(0, inc - elapse) to base,
\* which never grows; with timepermove it sets base to the initial base
\* whatever the elapse; with classical it takes elapse from base; base is
\* then at least 0, elapse is 0, and inc, period_moves and the initial base
\* are as before
C17_DelayTimePerMoveClassical ==
    [][ UpdateBaseCalled =>
          LET d == IF timer.inc - timer.elapse < 0 THEN timer.inc - timer.elapse ELSE 0
              clamp(n) == IF n < 0 THEN 0 ELSE n
          IN  /\ timer.tc_type = "delay" =>
                    timer'.base = clamp(timer.base + d) /\ timer'.base <= timer.base
              /\ timer.tc_type = "timepermove" => timer'.base = timer.init_base_time
              /\ timer.tc_type = "classical" => timer'.base = clamp(timer.base - timer.elapse)
              /\ timer'.base >= 0
              /\ timer'.elapse = 0
              /\ timer'.inc = timer.inc
              /\ timer'.period_moves = timer.period_moves
              /\ timer'.init_base_time = timer.init_base_time
              /\ timer'.tc_type = timer.tc_type
      ]_vars

\* a delay timer of base 10000 and increment 2000 was updated after 3000 ms,
\* and lost the 1000 ms the delay did not cover
C17_Witness ==
    /\ timer.tc_type = "delay"
    /\ timer.init_base_time = 10000
    /\ timer.inc = 2000
    /\ timer.period_moves = 40
    /\ timer.base = 9000
    /\ timer.elapse = 0
    /\ updates = 1

(***************************************************************************)
(* play_game: the scheduler                                                *)
(***************************************************************************)
\* the human has White in the starting position and no move was played
WhiteToOpen ==
    /\ pg.is_user_white
    /\ game = PosStart
    /\ board.move_stack = <<>>

\* the human, White, has just played the opening move and the engine side
\* has not moved yet
WhiteOpened ==
    /\ pg.is_user_white
    /\ game = PosStart
    /\ Len(board.move_stack) = 1
    /\ pg.move_cnt = 1
    /\ ~pg.is_human_stm

\* the scheduler goes on to Black's half-move and asks the book or starts
\* the engine's search
OpponentInvoked ==
    /\ (WhiteOpened /\ pg.pc = "human" /\ pg' # pg) => pg'.pc = "engine"
    /\ (WhiteOpened /\ pg.pc = "engine" /\ pg' # pg) =>
          \/ pg'.source = "book" /\ Len(board'.move_stack) = 2
          \/ /\ pg'.source = "engine"
             /\ search'.started = search.started + 1
             /\ search'.kind = "opponent"
             /\ pg'.pc = "search"

\* C18, as claimed: from the starting position with the human as White, a
\* legal opening move entered with two clicks flips the side to move to the
\* engine side, leaves White's clock base lower than before by at least the
\* polling tick (100 ms), and the book or the engine is asked for Black
C18_ClockLowerAfterOpening ==
    [][ /\ \A m \in LegalNow :
             (WhiteToOpen /\ HumanEnters(m)) =>
                /\ board' = push(board, m)
                /\ ~pg'.is_human_stm
                /\ human_timer'.base <= human_timer.base - 100
        /\ OpponentInvoked
      ]_vars

\* C18, amended: the side flips and the book or the engine is asked for
\* Black; White's base becomes base + inc - elapse (not below 0), elapse
\* being the polled time since White came to move, two ticks at least: with
\* the increment of 10 s the base is higher than before unless the human took
\* more than the increment
C18_ClockAfterOpening ==
    [][ /\ \A m \in LegalNow :
             (WhiteToOpen /\ HumanEnters(m)) =>
                LET elapse == human_timer.elapse + 100
                    based == human_timer.base + human_inc_time_ms - elapse
                IN  /\ board' = push(board, m)
                    /\ ~pg'.is_human_stm
                    /\ elapse >= 200
                    /\ human_timer.base = human_base_time_ms
                    /\ human_timer'.base = (IF based < 0 THEN 0 ELSE based)
                    /\ elapse < human_inc_time_ms => human_timer'.base > human_timer.base
                    /\ human_timer'.elapse = 0
        /\ OpponentInvoked
      ]_vars

\* White's opening move was entered with two clicks, 200 ms after the game
\* began, and the book or the engine was asked for Black
C18_Witness ==
    /\ pg.is_user_white
    /\ game = PosStart
    /\ Len(board.move_stack) >= 1
    /\ human_timer.base = human_base_time_ms + human_inc_time_ms - 200
    /\ pg.source \in {"book", "engine"}

\* update_base called once on the timer t, after the tick of the read that
\* brought the move (the book's move comes without a read)
UpdatedOnce(t, after) ==
    \/ after = update_base(Elapse(t, 100))
    \/ after = update_base(t)

\* C19: every half-move committed in play_game, by the human, the book or
\* the engine, pushes one move on the rules-engine board, adds one to
\* move_cnt, calls update_base once on the mover's timer and flips
\* is_human_stm; so move_cnt is the number of moves pushed since the game
\* began
C19_HalfMoveCommit ==
    /\ [](pg.pc # "top" => pg.move_cnt = Len(board.move_stack))
    /\ [][ (game' = game /\ board' # board) =>
             /\ Pushes
             /\ board' = push(board, PushedMove)
             /\ PushedMove \in LegalNow
             /\ pg'.move_cnt = pg.move_cnt + 1
             /\ pg'.is_human_stm = ~pg.is_human_stm
             /\ IF pg.pc = "human"
                THEN /\ pg.is_human_stm
                     /\ human_timer' = update_base(Elapse(human_timer, 100))
                     /\ engine_timer' = engine_timer
                ELSE /\ ~pg.is_human_stm
                     /\ UpdatedOnce(engine_timer, engine_timer')
                     /\ human_timer' = human_timer
         ]_vars
    /\ [][ (pg.pc # "top" /\ pg'.move_cnt # pg.move_cnt) => (game' = game /\ board' # board) ]_vars

\* the engine's search and then the human each committed a half-move of the
\* game
C19_Witness ==
    /\ pg.move_cnt = 2
    /\ Len(board.move_stack) = 2
    /\ pg.entry = "committed"
    /\ pg.source = "engine"
    /\ search.kind = "opponent"
    /\ engine_timer.base < engine_base_time_ms + engine_inc_time_ms
    /\ human_timer.base = human_base_time_ms + human_inc_time_ms - 200

(***************************************************************************)
(* play_game: the search thread                                            *)
(***************************************************************************)
\* C20: at most one engine search, the opponent's or the adviser's, is
\* outstanding at any instant: a search is started only when the one before
\* it has ended, was joined and had its engine quit, also when a control
\* event stopped it
C20_OneOutstandingSearch ==
    /\ [](/\ Cardinality(search.undisposed) <= 1
          /\ search.running \subseteq search.undisposed)
    /\ [][ search'.started # search.started =>
             /\ search.undisposed = {}
             /\ search.running = {}
             /\ search'.started = search.started + 1
             /\ search'.undisposed = {search'.started}
         ]_vars

\* the adviser's search was told to stop and was disposed of; the opponent's
\* search, the second of the game, is outstanding
C20_Witness ==
    /\ search.started = 2
    /\ search.undisposed = {2}
    /\ search.kind = "opponent"
    /\ search.was_stopped
    /\ search.stopped = {}
    /\ pg.pc = "search"

(***************************************************************************)
(* play_game under every button event its loops handle: the clipboard      *)
(* holds the position with a mate in one, and the adviser is not started   *)
(***************************************************************************)
InitControl == InitGame

NextControl ==
    \/ \E ev \in ControlEvents : PlayAfterMove(ev)
    \/ \E button \in PosButtons(game) : PlayClick(button)
    \/ \E ev \in ControlEvents, reply \in {"Yes", "No"} : PlayControl(ev, reply)
    \/ \E clip \in {PosMate} : PlayPaste(clip)
    \/ \E ev \in {"New::new_game_k", "Neutral", "Go", "None"} : GoWait(ev)
    \/ \E clip \in {PosMate} : GoWaitPaste(clip)
    \/ \E best_move \in EngineMoves(game, board) : BookMove(best_move)
    \/ StartSearch
    \/ \E ev \in SearchEvents : SearchRead(ev)
    \/ EngineInfo
    \/ \E msg \in {BestMoveMsg(m) : m \in EngineMoves(game, board)} \cup {DeadMsg} :
          EngineBestMove(msg)

SpecControl == InitControl /\ [][NextControl]_vars

\* the game session is over: play_game has returned or has left the program
Ended == pg.pc \in {"returned", "exited"}

\* C21: a control event read while the engine is awaited (window close, New,
\* Neutral, Resign, User Wins, User Draws) is not lost: once the game session
\* has ended, it has ended with the outcome of that event, the engine's reply
\* ending the game included.  Stated for a session in which one such event
\* was read: close leaves the program, New returns True, Neutral returns
\* False, User Wins and User Draws give their Result, and a resignation is
\* either confirmed (the opponent's win) or withdrawn (the flag is cleared).
C21_ControlEventNotLost ==
    Ended =>
       /\ pg.is_search_stop_for = {"exit"} => pg.pc = "exited"
       /\ pg.is_search_stop_for = {"new_game"} =>
             \/ pg.pc = "exited"
             \/ pg.ret = "True"
       /\ pg.is_search_stop_for = {"neutral"} =>
             \/ pg.pc = "exited"
             \/ pg.ret = "False"
       /\ pg.is_search_stop_for = {"user_wins"} =>
             \/ pg.is_exit_app \/ pg.is_new_game
             \/ pg.Result = (IF pg.is_user_white THEN "1-0" ELSE "0-1")
       /\ pg.is_search_stop_for = {"user_draws"} =>
             \/ pg.is_exit_app \/ pg.is_new_game
             \/ pg.Result = "1/2-1/2"
       /\ pg.is_search_stop_for = {"resign"} =>
             \/ pg.is_exit_app \/ pg.is_new_game
             \/ pg.Result = (IF pg.is_user_white THEN "0-1" ELSE "1-0")

\* the case of C21 that fails: New is read while the engine searches, and the
\* engine's reply mates
C21_NewLostAtMate ==
    /\ Ended
    /\ pg.is_search_stop_for = {"new_game"}
    /\ is_game_over(game, board)
    /\ pg.ret = "False"

\* the wait for the engine takes a bestmove that is no move off the queue
ReadsDeadMsg ==
    /\ pg.pc = "search"
    /\ queue # <<>>
    /\ Head(queue) = DeadMsg
    /\ queue' = Tail(queue)

\* C22: when the opponent engine ends without a usable move (a bestmove that
\* does not parse included), play_game ends the game session: the loop is
\* left with no move committed, the side to move not flipped, no other search
\* started, and an error popup shown; nothing is committed or searched after.
C22_EngineFailureEndsSession ==
    [][/\ ReadsDeadMsg =>
             /\ Ended'
             /\ board' = board /\ psg_board' = psg_board
             /\ pg'.move_cnt = pg.move_cnt
             /\ pg'.is_human_stm = pg.is_human_stm
             /\ search'.started = search.started
             /\ search'.undisposed = {}
             /\ pg'.popup = "Engine error"
       /\ Ended => /\ board' = board /\ psg_board' = psg_board
                   /\ search' = search /\ pg' = pg]_vars

C22_Witness ==
    /\ Ended
    /\ pg.popup = "Engine error"
    /\ pg.source = "engine"
    /\ search.started = 1 /\ search.undisposed = {}
    /\ pg.move_cnt = 1

\* the engine's half-move leaves its start: the book or the search is taken
EngineHalfMove == pg.pc = "engine" /\ pg' # pg

\* C23: on an engine half-move with the book enabled and move_cnt <=
\* max_book_ply the book is asked first; a book move is committed without a
\* search being started; without a book move a search is started in this
\* same half-move; and the book is asked again on the next such half-move,
\* whatever the earlier one gave.
C23_BookFirst ==
    [][EngineHalfMove =>
          /\ (is_use_gui_book /\ pg.move_cnt <= max_book_ply) => pg'.book_asked
          /\ pg'.source = "book" =>
                /\ pg'.book_asked /\ search' = search
                /\ pg'.pc # "search"
                /\ pg'.pc # "raised" => /\ Len(board'.move_stack) = Len(board.move_stack) + 1
                                        /\ pg'.move_cnt = pg.move_cnt + 1
          /\ pg'.source # "book" =>
                /\ pg'.source = "engine" /\ pg'.pc = "search"
                /\ search'.started = search.started + 1
                /\ search'.kind = "opponent"
                /\ board' = board /\ pg'.move_cnt = pg.move_cnt]_vars

\* a search answered an engine half-move, and the book the next one
C23_Witness ==
    /\ pg.source = "book" /\ pg.book_asked
    /\ search.started = 1 /\ search.kind = "opponent"
    /\ pg.move_cnt = 2

\* the user's adjudication flags of play_game
Adjudicated(p) == p.is_user_resigns \/ p.is_user_wins \/ p.is_user_draws

\* the human has moved and the human's wait loop makes its last read, the
\* one that finds the side to move changed (lines 1273-1284)
LastHumanRead(p) == p.pc = "human" /\ ~p.is_human_stm

\* C24: the half-move loop of play_game ends when the board reports game over
\* (draw claims included) or the user resigns and confirms, claims a win or
\* claims a draw; Result is the opponent's win for a resignation, the user's
\* win for User Wins, 1/2-1/2 for User Draws and the board's own result
\* otherwise; no move is committed after the terminating event.  A game
\* ended by the human's own move ends the loop at the next read of the
\* human's wait loop.
C24_Result ==
    /\ Ended =>
          /\ pg.is_user_resigns =>
                pg.Result = (IF pg.is_user_white THEN "0-1" ELSE "1-0")
          /\ pg.is_user_wins =>
                pg.Result = (IF pg.is_user_white THEN "1-0" ELSE "0-1")
          /\ pg.is_user_draws => pg.Result = "1/2-1/2"
          /\ ~Adjudicated(pg) =>
                pg.Result = (IF ~is_game_over(game, board) THEN "*"
                             ELSE IF board.turn THEN "0-1" ELSE "1-0")
    /\ (pg.pc \notin {"returned", "exited", "raised"} /\ ~LastHumanRead(pg)) =>
          ~is_game_over(game, board) /\ ~Adjudicated(pg)
    /\ LastHumanRead(pg) => ~Adjudicated(pg)

C24_LoopEnds ==
    [][/\ (Adjudicated(pg') /\ ~Adjudicated(pg)) => (Ended' /\ board' = board)
       /\ (is_game_over(game', board') /\ ~is_game_over(game, board)) =>
             (Ended' \/ LastHumanRead(pg'))
       /\ (is_game_over(game, board) /\ LastHumanRead(pg)) =>
             (Ended' /\ board' = board /\ pg'.move_cnt = pg.move_cnt)
       /\ Ended => (board' = board /\ psg_board' = psg_board
                    /\ pg'.move_cnt = pg.move_cnt)]_vars

C24_WitnessMate ==
    /\ Ended /\ ~Adjudicated(pg) /\ is_game_over(game, board)
    /\ pg.Result = "1-0"

(***************************************************************************)
(* PuzzleManager.play_puzzle and review_puzzles (chessPuzzle.py 44-83)     *)
(* with User.save_files (user.py 31-37).  disk is what data\record.txt     *)
(* holds; the process can die between any two steps, an exception of       *)
(* Puzzle.run included.                                                    *)
(***************************************************************************)
\* what Puzzle.run leaves: the rank ("" when the window was closed before
\* the puzzle was cleared) and its return value
RunOutcomes ==
    {[rank |-> r, ret |-> b] : r \in Ranks, b \in BOOLEAN}
        \cup {[rank |-> "", ret |-> FALSE]}

\* the batch is entered with the puzzle ids it will run; seen is history:
\* the record sets as they were before and after the attempts completed
BatchStart(kind, todo, rec) ==
    [pc |-> "run", kind |-> kind, todo |-> todo, seen |-> {rec}, ret |-> "None"]

\* one iteration of the loop: the puzzle is run, a cleared puzzle is
\* recorded, and the loop goes on, or leaves for save_files
PuzzleAttempt(out) ==
    /\ batch.pc = "run"
    /\ batch.todo # <<>>
    /\ LET id == Head(batch.todo)
           rec2 == IF out.rank # ""
                   THEN add_activity(record, today, "Polgar5334", id, out.rank)
                   ELSE record
           rest == IF out.rank # "" \/ batch.kind = "review"
                   THEN Tail(batch.todo) ELSE batch.todo
       IN  /\ record' = rec2
           /\ streak' = IF out.rank # ""
                        THEN [streak EXCEPT ![id] =
                                 StreakAfter(rec2, @, "Polgar5334", id, out.rank)]
                        ELSE streak
           /\ batch' = [batch EXCEPT
                          !.todo = rest,
                          !.seen = @ \cup {rec2},
                          !.ret = IF out.ret THEN "True" ELSE "False",
                          !.pc = IF ~out.ret \/ rest = <<>>
                                 THEN "save_config" ELSE "run"]
    /\ UNCHANGED <<today, disk, coord, reviewVars, puzzleVars, hl, playVars, timerVars>>

\* save_files writes data\user.ini
SaveConfig ==
    /\ batch.pc = "save_config"
    /\ batch' = [batch EXCEPT !.pc = "save_open"]
    /\ UNCHANGED <<disk, coord, recordVars, reviewVars, puzzleVars, hl, playVars,
                   timerVars>>

\* open(record_file, 'w'): the file is truncated
SaveOpen ==
    /\ batch.pc = "save_open"
    /\ disk' = EmptyDict
    /\ batch' = [batch EXCEPT !.pc = "save_write"]
    /\ UNCHANGED <<coord, recordVars, reviewVars, puzzleVars, hl, playVars, timerVars>>

\* self.record.write(recordfile) and the close of the file
SaveWrite ==
    /\ batch.pc = "save_write"
    /\ disk' = record
    /\ batch' = [batch EXCEPT !.pc = "returned"]
    /\ UNCHANGED <<coord, recordVars, reviewVars, puzzleVars, hl, playVars, timerVars>>

\* the process dies: an exception that nothing catches, or a kill
Crash ==
    /\ batch.pc \in {"run", "save_config", "save_open", "save_write"}
    /\ batch' = [batch EXCEPT !.pc = "crashed"]
    /\ UNCHANGED <<disk, coord, recordVars, reviewVars, puzzleVars, hl, playVars,
                   timerVars>>

\* record sets a batch starts from: each puzzle without a record, new (stage
\* 0) or one S from retirement (stage 6)
SavedStores ==
    {[s \in Sections |-> items] :
        items \in UNION {[{Str(i) : i \in P} -> {RecordValue(0, g) : g \in {0, 6}}] :
                         P \in SUBSET PuzzleIds}}

\* the puzzle ids of a batch: the next puzzle_count puzzles of the set, or
\* the review items, which have records
Batches(rec) ==
    {[kind |-> "play", todo |-> [i \in 1..n |-> 8 + i]] : n \in 1..NPuzzles}
        \cup {[kind |-> "review", todo |-> <<i>>] :
                 i \in {j \in PuzzleIds : HasRecord(rec, "Polgar5334", j)}}
        \cup {[kind |-> "review", todo |-> <<i, j>>] :
                 i, j \in {k \in PuzzleIds : HasRecord(rec, "Polgar5334", k)}}

InitSave ==
    /\ today \in 0..MaxDay
    /\ record \in SavedStores
    /\ streak = [i \in PuzzleIds |-> -1]
    /\ max_item = 0
    /\ review = ReviewIdle
    /\ disk = record
    /\ batch \in {BatchStart(b.kind, b.todo, record) : b \in Batches(record)}
    /\ coord = CoordIdle
    /\ game = PuzzlePlain
    /\ board = GameBoard(PuzzlePlain)
    /\ run = PuzzleStart
    /\ input = InputStart
    /\ PlayIdle
    /\ TimerIdle

NextSave ==
    \/ \E out \in RunOutcomes : PuzzleAttempt(out)
    \/ SaveConfig
    \/ SaveOpen
    \/ SaveWrite
    \/ Crash

SpecSave == InitSave /\ [][NextSave]_vars

\* C25: the full record set is written to the file after each puzzle attempt,
\* before the next puzzle of the batch starts, and each save is all or
\* nothing: whenever the process may die, the file holds the record set as it
\* was just before or just after some completed attempt, never an empty or
\* partial one.
C25_SavedPerAttempt ==
    batch.pc # "none" =>
       /\ disk \in batch.seen
       /\ batch.pc = "run" => disk = record

\* the two cases of C25 that fail: the second puzzle starts with the first
\* attempt unsaved, and the process dies with the file truncated
C25_UnsavedAtNextPuzzle ==
    /\ batch.pc = "run" /\ batch.ret = "True"
    /\ disk # record

C25_TruncatedAtCrash ==
    /\ batch.pc = "crashed"
    /\ disk = EmptyDict /\ record # EmptyDict
    /\ disk \notin batch.seen

(***************************************************************************)
(* The conversions between a square of the rules engine (0..63), the key   *)
(* (row, col) of a board button, the text of a move, and the place of a    *)
(* button on the screen for either orientation of the board.               *)
(***************************************************************************)
\* create_board: the key of the button laid out at screen row sr, screen
\* column sc (interface.py 113-129); the ranges run backwards for Black
KeyAt(is_user_white, sr, sc) ==
    IF is_user_white THEN <<sr, sc>> ELSE <<7 - sr, 7 - sc>>

\* create_board: the square named by the labels beside that place: the rank
\* label str(8 - i) of its row and the file letter under its column
LabelAt(is_user_white, sr, sc) ==
    LET i == IF is_user_white THEN sr ELSE 7 - sr
        letters == IF is_user_white THEN FILE_NAMES
                   ELSE [k \in 1..8 |-> FILE_NAMES[9 - k]]
    IN  <<letters[sc + 1], DigitChars[(8 - i) + 1]>>

\* the square of a name: chess.parse_square
parse_square(name) == Sq(Ord(name[1]) - Ord("a"), DigitVal(name[2]) - 1)

\* get_row, get_col on a square, and back
ToButton ==
    /\ coord.op = "input"
    /\ coord' = [coord EXCEPT !.op = "to_button",
                              !.out = ButtonOf(coord.square),
                              !.back = SquareOfButton(ButtonOf(coord.square))]
    /\ UNCHANGED <<recordVars, reviewVars, puzzleVars, hl, playVars, timerVars,
                   saveVars>>

\* chess.square(col, 7 - row) on a button, and back
ToSquare ==
    /\ coord.op = "input"
    /\ coord' = [coord EXCEPT !.op = "to_square",
                              !.out = SquareOfButton(coord.button),
                              !.back = ButtonOf(SquareOfButton(coord.button))]
    /\ UNCHANGED <<recordVars, reviewVars, puzzleVars, hl, playVars, timerVars,
                   saveVars>>

\* the buttons read from the text of an engine move from the square to the
\* square of the button
FromText ==
    /\ coord.op = "input"
    /\ LET move_str == str_move(Mv(coord.square, SquareOfButton(coord.button)))
       IN  coord' = [coord EXCEPT !.op = "from_text",
                                  !.out = TextButton(move_str, 1),
                                  !.back = TextButton(move_str, 3)]
    /\ UNCHANGED <<recordVars, reviewVars, puzzleVars, hl, playVars, timerVars,
                   saveVars>>

\* a click on the button at a place of the screen, the board laid out for
\* the user's colour
ScreenClick ==
    /\ coord.op = "input"
    /\ LET sr == coord.button[1]
           sc == coord.button[2]
       IN  coord' = [coord EXCEPT
                        !.op = "click",
                        !.out = SquareOfButton(KeyAt(coord.is_user_white, sr, sc)),
                        !.back = parse_square(LabelAt(coord.is_user_white, sr, sc))]
    /\ UNCHANGED <<recordVars, reviewVars, puzzleVars, hl, playVars, timerVars,
                   saveVars>>

InitCoord ==
    /\ record = EmptyDict
    /\ today = 0
    /\ streak = [i \in PuzzleIds |-> -1]
    /\ max_item = 0
    /\ review = ReviewIdle
    /\ SaveIdle
    /\ coord \in {[op |-> "input", square |-> s, button |-> <<row, col>>,
                   is_user_white |-> w, out |-> <<>>, back |-> <<>>] :
                     s \in 0..63, row \in 0..7, col \in 0..7, w \in BOOLEAN}
    /\ game = PuzzlePlain
    /\ board = GameBoard(PuzzlePlain)
    /\ run = PuzzleStart
    /\ input = InputStart
    /\ PlayIdle
    /\ TimerIdle

NextCoord == ToButton \/ ToSquare \/ FromText \/ ScreenClick

SpecCoord == InitCoord /\ [][NextCoord]_vars

\* C26: for every square s of 0..63, the button (7 - rank(s), file(s)) taken
\* back by square(col, 7 - row) is s; for every button (row, col) of 0..7 x
\* 0..7 the opposite round trip gives (row, col); the button of a screen
\* place gives the square its labels name for both orientations; and the
\* buttons read from an engine move's text (col = file letter, row = 8 - rank
\* digit) are those of its squares.
C26_CoordinateRoundTrip ==
    /\ coord.op = "to_button" =>
          /\ coord.out = <<7 - square_rank(coord.square), square_file(coord.square)>>
          /\ coord.back = coord.square
    /\ coord.op = "to_square" =>
          /\ coord.out \in 0..63
          /\ coord.back = coord.button
    /\ coord.op = "click" => coord.out = coord.back
    /\ coord.op = "from_text" =>
          /\ coord.out = ButtonOf(coord.square)
          /\ coord.back = coord.button

\* the round trip made for h8 (63, button (0, 7)) and for a Black user's
\* click, cases where row and rank differ
C26_Witness ==
    /\ coord.op = "click" /\ ~coord.is_user_white
    /\ coord.button = <<0, 7>> /\ coord.out = 0
    /\ coord.square = 63

\* Game.update_board is called with the script's move, a castling move: by
\* the scripted side, or for the human's matching move
UpdateBoardCastles ==
    /\ run.pc \in {"wait", "input"}
    /\ is_castling(board, game.script[run.ply])
    /\ \/ run.pc = "wait" /\ run' # run
       \/ run.pc = "input" /\ run'.performance[1] = run.performance[1] + 1

\* C27: every castling move that Game.update_board applies in a puzzle (a
\* scripted move or the human's matching move) relocates the rook by the
\* king's destination, places the king, and is pushed to the board, so that
\* the puzzle goes on to the next ply.
C27_PuzzleCastling ==
    [][UpdateBoardCastles =>
          /\ run'.pc # "raised"
          /\ board'.move_stack = Append(board.move_stack, game.script[run.ply])]_vars

\* the case of C27 that fails: the human has entered the script's castling
\* move and update_board has raised
C27_CastlingRaised ==
    /\ run.pc = "raised"
    /\ run.performance[1] = 1
    /\ is_castling(board, game.script[run.ply])

\* get_user_input reads the second click, with a pawn selected, on a square
\* of the last rank of the side to move
PromotionEntered ==
    /\ run.pc = "input"
    /\ input.move_state = 1
    /\ input.moved_piece = "P"
    /\ \E button \in Buttons(game) :
          /\ button # input.move_from
          /\ relative_row(SquareOfButton(button), board.turn) = RANK_8
          /\ ClickSquare(button)

\* C28: in Game.get_user_input, with a pawn selected and the destination on
\* relative rank 7 of the side to move, the promotion piece comes from the
\* chooser (Queen when dismissed) and the function returns the move with
\* that promotion when it is legal, or goes back to Idle without a move when
\* it is not: in both cases the entry is over and nothing is raised.
C28_PuzzlePromotion ==
    [][PromotionEntered =>
          /\ run'.pc # "raised"
          /\ input'.move_state = 0]_vars

\* the case of C28 that fails: the pawn on a7 is selected, a8 is clicked, and
\* get_user_input has raised
C28_PromotionRaised ==
    /\ run.pc = "raised"
    /\ input.move_state = 1 /\ input.moved_piece = "P"
    /\ input.move_from = ButtonOf(A7)

\* C29: while the engine's result is awaited, each of window close, New, Move
\* Now, Neutral, Resign, User Wins and User Draws read by the poll has stop
\* signalled to the outstanding search in that same iteration, and no other
\* event signals stop.  Stated for the iterations that start with the search
\* not yet told to stop, where the signal shows.
C29_StopSignalled ==
    [][(/\ pg.pc = "search"
        /\ engine_timer' # engine_timer
        /\ search.started \notin search.stopped) =>
       \A ev \in SearchEvents :
          (StopFlag(ev) \subseteq pg'.is_search_stop_for /\ SearchRead(ev)) =>
             IF ev \in {"None", "New::new_game_k", "Move Now", "Neutral",
                        "Resign::resign_game_k", "User Wins::user_wins_k",
                        "User Draws::user_draws_k"}
             THEN /\ search'.was_stopped
                  /\ search'.undisposed # {} => search.started \in search'.stopped
             ELSE /\ search'.was_stopped = search.was_stopped
                  /\ search'.stopped = {}]_vars

\* Move Now was read: the search is told to stop and no flag is left
C29_Witness ==
    /\ pg.pc = "search"
    /\ search.started \in search.stopped /\ search.started \in search.undisposed
    /\ pg.is_search_stop_for = {}

\* C30: a side's elapse grows only while that side is on the move: the
\* human's commit resets the human timer's elapse to 0 and it stays 0 (it
\* does not grow) until the human is again the side to move, and the engine
\* timer's elapse grows only in the wait for the engine.
C30_ElapseOnlyOnTheMove ==
    [][/\ (pg.pc = "human" /\ pg'.entry = "committed" /\ board' # board) =>
             human_timer'.elapse = 0
       /\ ~pg.is_human_stm => human_timer'.elapse <= human_timer.elapse
       /\ engine_timer'.elapse > engine_timer.elapse =>
             (pg.pc = "search" /\ ~pg.is_human_stm)]_vars

\* the case of C30 that fails: the human has moved, the engine is on the
\* move, and the human timer's elapse is 100
C30_HumanChargedAfterCommit ==
    /\ pg.pc \in {"engine", "search"}
    /\ pg.entry = "committed" /\ pg.move_cnt = 1
    /\ ~pg.is_human_stm
    /\ human_timer.elapse = 100

(***************************************************************************)
(* play_game: frames of the clocks, the move entry and the move source     *)
(***************************************************************************)
\* C31: a timer's base changes only in update_base, which is called only
\* when that timer's own side commits a move; committing a move leaves the
\* other side's base and elapse unchanged; cancelled selections, illegal
\* moves and control events change no timer's base
C31_BaseOnlyAtOwnCommit ==
    [][ LET committed == /\ Len(board'.move_stack) = Len(board.move_stack) + 1
                         /\ game' = game
        IN
        /\ human_timer'.base # human_timer.base =>
              /\ pg.pc = "human" /\ pg.is_human_stm
              /\ committed
              /\ human_timer' = update_base(Elapse(human_timer, 100))
        /\ engine_timer'.base # engine_timer.base =>
              /\ pg.pc \in {"engine", "search"} /\ ~pg.is_human_stm
              /\ committed
              /\ UpdatedOnce(engine_timer, engine_timer')
        /\ committed =>
              IF pg.pc = "human"
              THEN /\ engine_timer' = engine_timer
                   /\ human_timer'.elapse = 0
              ELSE /\ human_timer' = human_timer
                   /\ engine_timer'.elapse = 0
        /\ ~committed =>
              /\ human_timer'.base = human_timer.base
              /\ engine_timer'.base = engine_timer.base
      ]_vars

\* the human selected a square and entered a legal move on the second
\* click, with the engine's timer as it was created
C31_Witness ==
    /\ pg.move_cnt = 1
    /\ pg.entry = "committed"
    /\ ~pg.is_human_stm
    /\ human_timer.base = human_base_time_ms + human_inc_time_ms - 200
    /\ human_timer.elapse = 0
    /\ engine_timer.base = engine_base_time_ms
    /\ engine_timer.elapse = 0

RECURSIVE Played(_, _)
Played(g, n) == IF n = 0 THEN GameBoard(g) ELSE push(Played(g, n - 1), g.script[n])

PuzzleEnPassantE8 ==
    [PuzzleEnPassant EXCEPT !.legal[2] = @ \cup {Mv(E8, E7)}]

\* self.puzzles[id]: the puzzle of the file at index id
PuzzleOfId(id) ==
    IF id = 9 THEN PuzzlePlain
    ELSE IF id = 10 THEN PuzzleEnPassantE8
    ELSE PuzzleCastle

\* play_puzzle(puzzle_count) is entered: Puzzle_Finished is read into
\* puzzle_finished and id; recorded is history: the add_activity calls made
PlayBatch(puzzle_count) ==
    [pc |-> "run", kind |-> "play", puzzle_count |-> puzzle_count,
     puzzle_finished |-> 9, id |-> 9, Puzzle_Finished |-> 9,
     recorded |-> <<>>, ret |-> "None"]

\* mutant: a puzzle whose window was closed is not recorded
UserCompletes_NotExited(p) == p.rank # "" /\ ~p.is_exit_app

\* the test of line 55, `p.rank != ""`: the user completes the puzzle
UserCompletes(p) == p.rank # ""

\* p.run() has returned: lines 55-61 and the test of the while loop; when
\* the loop goes on, the next puzzle is prepared (lines 52-53)
PuzzleReturns ==
    /\ batch.pc = "run"
    /\ run.pc = "done"
    /\ LET id == IF UserCompletes(run) THEN batch.id + 1 ELSE batch.id
           rec2 == IF UserCompletes(run)
                   THEN add_activity(record, today, "Polgar5334", batch.id, run.rank)
                   ELSE record
           leaves == run.ret = "False"
           ends == ~(id < batch.puzzle_finished + batch.puzzle_count)
       IN  /\ record' = rec2
           /\ streak' = IF UserCompletes(run)
                        THEN [streak EXCEPT ![batch.id] =
                                 StreakAfter(rec2, @, "Polgar5334", batch.id, run.rank)]
                        ELSE streak
           /\ batch' = [batch EXCEPT
                          !.id = id,
                          !.Puzzle_Finished = id,
                          !.recorded = IF UserCompletes(run)
                                       THEN Append(@, <<batch.id, run.rank>>) ELSE @,
                          !.ret = IF leaves THEN "False"
                                  ELSE IF ends THEN "True" ELSE "None",
                          !.pc = IF leaves \/ ends THEN "save_config" ELSE "run"]
           /\ IF leaves \/ ends
              THEN UNCHANGED <<game, board, run, input, hl>>
              ELSE /\ game' = PuzzleOfId(id)
                   /\ board' = GameBoard(PuzzleOfId(id))
                   /\ run' = PuzzleStart
                   /\ input' = InputStart
                   /\ hl' = {}
    /\ UNCHANGED <<today, disk, coord, reviewVars, playVars, timerVars>>

\* p.run() raised: nothing in play_puzzle catches it
RunRaises ==
    /\ batch.pc = "run"
    /\ run.pc = "raised"
    /\ batch' = [batch EXCEPT !.pc = "crashed"]
    /\ UNCHANGED <<disk, coord, recordVars, reviewVars, puzzleVars, hl, playVars,
                   timerVars>>

\* play_puzzle is called with the puzzles from the cursor on not yet
\* attempted
InitPlay ==
    /\ today = 0
    /\ record = EmptyDict
    /\ streak = [i \in PuzzleIds |-> -1]
    /\ max_item = 0
    /\ review = ReviewIdle
    /\ disk = record
    /\ batch \in {PlayBatch(n) : n \in 1..NPuzzles}
    /\ coord = CoordIdle
    /\ game = PuzzleOfId(9)
    /\ board = GameBoard(PuzzleOfId(9))
    /\ run = PuzzleStart
    /\ input = InputStart
    /\ PlayIdle
    /\ TimerIdle

NextPlay ==
    \/ batch.pc = "run" /\ StartRun
    \/ batch.pc = "run" /\ ScriptedPly
    \/ \E button \in Buttons(game) : batch.pc = "run" /\ ClickSquare(button)
    \/ batch.pc = "run" /\ CloseWindow
    \/ \E button \in {"None", "puzzle_next", "back_to_main"} :
           batch.pc = "run" /\ ClearedEvent(button)
    \/ PuzzleReturns
    \/ RunRaises
    \/ SaveConfig
    \/ SaveOpen
    \/ SaveWrite

SpecPlay == InitPlay /\ [][NextPlay]_vars

C34_WitnessAbandoned ==
    /\ batch.pc = "save_config"
    /\ Len(batch.recorded) = 1
    /\ batch.Puzzle_Finished = 10
    /\ run.rank = "" /\ run.is_exit_app
    /\ ~HasRecord(record, "Polgar5334", 10)

\* C35: when the user closes the window during a human ply of a puzzle whose
\* script still has later plies, Puzzle.run returns False without raising
\* and without asking the rules engine for the notation of a later scripted
\* move against the board that was not advanced
C35_CloseEvaluatesNothing ==
    [][ (/\ run.pc = "input" /\ ~run.is_exit_app /\ run'.is_exit_app
         /\ run.ply < Len(game.script)) =>
            /\ run'.pc = "done"
            /\ run'.ret = "False"
            /\ run'.rank = ""
            /\ board' = board
            /\ run'.san_at = run.san_at
      ]_vars

\* the case of C35 that fails: the window was closed at the first ply and
\* the run has returned False, after the notation of the second move of the
\* script was asked for with no move on the board
C35_SanOnUnadvancedBoard ==
    /\ run.pc = "done" /\ run.ret = "False" /\ run.rank = ""
    /\ run.is_exit_app
    /\ board.move_stack = <<>>
    /\ run.san_at = <<2, 0>>

(***************************************************************************)
(* Claims about the first attempt and about the bound of the review        *)
(***************************************************************************)
\* C36: the first recorded attempt of a puzzle (no record exists for it)
\* creates a record with lastSeenDay = today and stage 0 whatever the rank,
\* rank S included: the rank of the first attempt has no effect on the
\* stored stage
C36_FirstAttemptStage0 ==
    /\ [](\A puzzle_id \in PuzzleIds :
              ~HasRecord(record, "Polgar5334", puzzle_id) =>
                  \A result \in Ranks :
                      LET rec2 == add_activity(record, today, "Polgar5334",
                                               puzzle_id, result)
                          stored == rec2["Polgar5334"][Str(puzzle_id)]
                      IN  /\ stored = RecordValue(today, 0)
                          /\ RecordStage(stored) = 0
                          /\ RecordDays(stored) = today)
    /\ [][ \A puzzle_id \in PuzzleIds :
              (/\ ~HasRecord(record, "Polgar5334", puzzle_id)
               /\ HasRecord(record', "Polgar5334", puzzle_id)) =>
                  /\ StageOf(record', <<"Polgar5334", Str(puzzle_id)>>) = 0
                  /\ DaysOf(record', <<"Polgar5334", Str(puzzle_id)>>) = today
                  /\ streak'[puzzle_id] = 0
         ]_vars

\* a first attempt made on a later day: the record was created at stage 0
\* with that day, while another puzzle has no record yet
C36_Witness ==
    /\ today = 1
    /\ HasRecord(record, "Polgar5334", 9)
    /\ record["Polgar5334"][Str(9)] = RecordValue(1, 0)
    /\ streak[9] = 0
    /\ ~HasRecord(record, "Polgar5334", 10)
    /\ streak[10] = -1

\* C37: get_review_items returns normally, without raising, for every bound
\* K >= 0 and every record set; with K = 0 and a non-empty record set it
\* returns an empty list
C37_ReturnsForEveryBound ==
    Called =>
        /\ review.pc = "returned"
        /\ (max_item = 0 /\ Keys(record) # {}) => review.results = <<>>

\* the case of C37 that fails: K = 0 and a record set with a record; the call
\* ended in IndexError at the first record visited
C37_IndexErrorAtZero ==
    /\ max_item = 0
    /\ Keys(record) # {}
    /\ review.pc = "IndexError"
    /\ Len(review.visited) = 1
    /\ review.held = 0

(***************************************************************************)
(* play_game: the pending selection, the move source and the events read   *)
(***************************************************************************)
\* C38: in play_game a pending from-selection is discarded (the move entry
\* is back in Idle without a move) only by a click on the same square, an
\* illegal destination, a move commit, a new game, or a change of the side's
\* move source; the other events that do not end the game (Show/Hide of the
\* search info or a book, About, Save, the start of the adviser) leave the
\* pending selection in place
C38_SelectionKept ==
    [][ (pg.pc = "human" /\ pg.move_state = 1 /\ pg'.move_state = 0) =>
            \/ pg'.entry \in {"cancelled", "illegal", "committed"}
            \/ pg'.is_new_game
            \/ game' # game
            \/ pg'.is_human_stm # pg.is_human_stm
            \/ pg'.pc \in {"returned", "exited"}
      ]_vars

\* the case of C38 that fails: a square was selected and a menu event that
\* breaks out of the wait loop was read; the game goes on with the human on
\* the move, the selection is gone and its square still has the move colour
C38_SelectionLostAtMenuEvent ==
    /\ pg.pc = "human" /\ pg.is_human_stm
    /\ pg.entry = "selected"
    /\ pg.move_state = 0
    /\ pg.move_from \in hl
    /\ pg.move_cnt = 0
    /\ board.move_stack = <<>>
    /\ ~pg.is_new_game

\* C39: throughout play_game, after any sequence of committed moves, Go and
\* Paste events, the human move source is active (is_human_stm) exactly when
\* the side to move on the rules-engine board is the user's colour, so the
\* human timer is charged for the user's colour and the engine timer for the
\* other
C39_HumanSourceIsUsersColour ==
    pg.pc \in {"human", "go_wait", "engine", "search", "adviser"} =>
        (pg.is_human_stm <=> (board.turn = pg.is_user_white))

\* the case of C39 that fails: the user plays White, no move has been made,
\* White is to move, and after Engine->Go the engine is searching White's
\* move with its own timer charged
C39_EngineSearchesUsersColour ==
    /\ pg.is_user_white
    /\ board.turn
    /\ board.move_stack = <<>>
    /\ pg.pc = "search"
    /\ ~pg.is_human_stm
    /\ engine_timer.elapse = 100

\* C40: no event read by the human's wait loop of play_game is discarded
\* without being examined by the handlers: a control event (Resign, New,
\* Neutral, the window's close) returned by the read that follows the commit
\* of the human's move is acted on, not dropped
C40_EventAfterCommitServed ==
    [][ \A ev \in {"None", "New::new_game_k", "Neutral", "Resign::resign_game_k"} :
           (pg.pc = "human" /\ ~pg.is_human_stm /\ PlayAfterMove(ev)) =>
               CASE ev = "None" -> pg'.is_exit_app
                 [] ev = "New::new_game_k" -> pg'.is_new_game
                 [] ev = "Neutral" -> pg'.is_exit_game
                 [] ev = "Resign::resign_game_k" -> pg'.is_user_resigns \/ pg' = pg
      ]_vars

\* the case of C40 that fails: the human's move was committed and the read
\* that follows it came back with the game going on to the engine's
\* half-move, no flag of a control event set
C40_ReadAfterCommitDropped ==
    /\ pg.pc \in {"engine", "search"}
    /\ pg.entry = "committed"
    /\ pg.move_cnt = 1
    /\ human_timer.elapse = 100
    /\ ~pg.is_exit_app /\ ~pg.is_new_game /\ ~pg.is_exit_game /\ ~pg.is_user_resigns
    /\ pg.is_search_stop_for = {}

====
